---------------------------- MODULE Spec2Model ----------------------------
(***************************************************************************)
(* Model of the vpo_tableros dashboards (pages/ingreso_st.py,              *)
(* pages/poblacion_st.py, pages/poblacion_sgsss_st.py): the aggregation    *)
(* functions, the filter applicator and the territorial join.              *)
(*                                                                         *)
(* A text value (a Python str) is a sequence of one-character strings, so  *)
(* that str.upper, str.strip, str.zfill and the ordering of keys are       *)
(* computed character by character.  A float is a record of class "fin"    *)
(* (the exact rational n/d), "nan", "inf" or "ninf".                       *)
(***************************************************************************)
EXTENDS Integers, Sequences, FiniteSets, TLC

VARIABLES
    pagina,      \* which pipeline the dataset belongs to
    df,          \* the dataset handed to the aggregation functions
    tabla,       \* the result of the last aggregation call
    df_arg,      \* filter applicator: the caller's DataFrame object (argument)
    df_prev,     \* filter applicator: the argument's content before the last call
    df_ret,      \* filter applicator: the DataFrame the last call returned
    llamada,     \* filter applicator: the last call (fn, col, valor)
    df_base,     \* filter applicator: the dataset the page loaded
    activos,     \* filter applicator: the active (col, valor) filters applied
    df_poblacion,\* join: the primary dataset
    df_geo,      \* join: the geography reference
    df_merged,   \* join: the result of the last join
    session_state, \* render: the BDUA page's st.session_state filter keys
    render,      \* render: the selections and the views of the last render
    carga,       \* render: what the loaders of the page returned
    sgsss,       \* SGSSS page: the loaded dataset and the last render
    hoja         \* normalize_columns: a sheet, as read and after each pass

vars == <<pagina, df, tabla, df_arg, df_prev, df_ret, llamada, df_base, activos,
          df_poblacion, df_geo, df_merged, session_state, render, carga,
          sgsss, hoja>>

(***************************************************************************)
(* Bounds of the model.                                                    *)
(***************************************************************************)
MaxRows == 2

\* the number of columns of a sheet, and of passes of normalize_columns over it
MaxCols == 2

MaxPasadas == 2

\* the rows of a dataset of the BDUA page in a render
MaxFilasRender == 3

-----------------------------------------------------------------------------
(***************************************************************************)
(* Text: characters, code points, upper, strip, comparison.                *)
(***************************************************************************)

\* The ASCII characters 32..122 in code-point order.  The letters, the digits
\* and the punctuation of the modelled texts stand for themselves; any other
\* character is held by a place-holder "c<code point>", which keeps the
\* positions of the rest.
Ascii ==
    << " ", "c33", "c34", "c35", "c36", "%", "c38", "c39", "c40", "c41",
       "c42", "c43", ",", "-", ".", "/", "0", "1", "2", "3", "4", "5", "6",
       "7", "8", "9", "c58", "c59", "c60", "c61", "c62", "c63", "c64", "A",
       "B", "C", "D", "E", "F", "G", "H", "I", "J", "K", "L", "M", "N",
       "O", "P", "Q", "R", "S", "T", "U", "V", "W", "X", "Y", "Z", "c91",
       "c92", "c93", "c94", "_", "c96", "a", "b", "c", "d", "e", "f", "g",
       "h", "i", "j", "k", "l", "m", "n", "o", "p", "q", "r", "s", "t",
       "u", "v", "w", "x", "y", "z" >>

Chars == { Ascii[i] : i \in 1..Len(Ascii) }

\* ord(c): the first printable character " " has code point 32
OrdTabla == [ c \in Chars |-> (CHOOSE i \in 1..Len(Ascii) : Ascii[i] = c) + 31 ]

Ord(c) == OrdTabla[c]

Chr(n) == Ascii[n - 31]

IsLower(c) == Ord(c) >= Ord("a") /\ Ord(c) <= Ord("z")

UpperChar(c) == IF IsLower(c) THEN Chr(Ord(c) - (Ord("a") - Ord("A"))) ELSE c

\* str.upper()
Upper(s) == [ i \in 1..Len(s) |-> UpperChar(s[i]) ]

RECURSIVE LStrip(_)
LStrip(s) == IF s # << >> /\ Head(s) = " " THEN LStrip(Tail(s)) ELSE s

RECURSIVE RStrip(_)
RStrip(s) ==
    IF s # << >> /\ s[Len(s)] = " " THEN RStrip(SubSeq(s, 1, Len(s) - 1)) ELSE s

\* str.strip()
Strip(s) == RStrip(LStrip(s))

\* s < t for Python strings: lexicographic on code points
RECURSIVE StrLess(_, _)
StrLess(s, t) ==
    IF t = << >> THEN FALSE
    ELSE IF s = << >> THEN TRUE
    ELSE IF Ord(Head(s)) < Ord(Head(t)) THEN TRUE
    ELSE IF Ord(Head(s)) > Ord(Head(t)) THEN FALSE
    ELSE StrLess(Tail(s), Tail(t))

\* sorted(S) for a set of strings
RECURSIVE SortedStrs(_)
SortedStrs(S) ==
    IF S = {} THEN << >>
    ELSE LET m == CHOOSE x \in S : \A y \in S : y = x \/ StrLess(x, y)
         IN  <<m>> \o SortedStrs(S \ {m})

\* the decimal digits of a natural number
RECURSIVE Digits(_)
Digits(n) ==
    IF n < 10 THEN << Chr(Ord("0") + n) >>
    ELSE Digits(n \div 10) \o << Chr(Ord("0") + (n % 10)) >>

\* the digits with a comma before every group of three (format spec ",")
RECURSIVE Miles(_)
Miles(ds) ==
    IF Len(ds) <= 3 THEN ds
    ELSE Miles(SubSeq(ds, 1, Len(ds) - 3)) \o <<",">>
         \o SubSeq(ds, Len(ds) - 2, Len(ds))

Abs(x) == IF x < 0 THEN -x ELSE x

\* f"{v:,.0f}" for an integer v
FmtEntero(v) == (IF v < 0 THEN <<"-">> ELSE << >>) \o Miles(Digits(Abs(v)))

\* A null (NaN) in a text column of the aggregated datasets: a one-element
\* sequence whose element is no character, so that it differs from every text.
NaNClave == <<"NaN">>

\* The literals of the source.
NA      == <<"N", "/", "A">>
TOTAL   == <<"T", "O", "T", "A", "L">>
ENE     == <<"E", "N", "E">>
FEB     == <<"F", "E", "B">>
MAR     == <<"M", "A", "R">>
ABR     == <<"A", "B", "R">>
MAY     == <<"M", "A", "Y">>
JUN     == <<"J", "U", "N">>
JUL     == <<"J", "U", "L">>
AGO     == <<"A", "G", "O">>
SEP     == <<"S", "E", "P">>
OCT     == <<"O", "C", "T">>
NOV     == <<"N", "O", "V">>
DIC     == <<"D", "I", "C">>

-----------------------------------------------------------------------------
(***************************************************************************)
(* Floats: the values a float64 cell takes in the aggregations.            *)
(***************************************************************************)
NaN    == [cls |-> "nan",  n |-> 0, d |-> 1]
Inf    == [cls |-> "inf",  n |-> 0, d |-> 1]
NegInf == [cls |-> "ninf", n |-> 0, d |-> 1]

\* the finite value n/d, kept with a positive denominator (d # 0)
Fin(n, d) == IF d < 0 THEN [cls |-> "fin", n |-> -n, d |-> -d]
                      ELSE [cls |-> "fin", n |-> n, d |-> d]

Cero == Fin(0, 1)

IsFin(x) == x.cls = "fin"

\* equality of two floats as numbers (nan equals nothing)
FEq(x, y) ==
    \/ IsFin(x) /\ IsFin(y) /\ x.n * y.d = y.n * x.d
    \/ x.cls = y.cls /\ x.cls \in {"inf", "ninf"}

IsCero(x) == IsFin(x) /\ x.n = 0

\* Series / Series for numeric columns: x/0 is inf, -inf or nan
SerieDiv(a, b) ==
    IF b # 0 THEN Fin(a, b)
    ELSE IF a > 0 THEN Inf
    ELSE IF a < 0 THEN NegInf
    ELSE NaN

\* .replace([np.inf, -np.inf], 0)
ReplaceInf(x) == IF x.cls \in {"inf", "ninf"} THEN Cero ELSE x

\* .fillna(0)
FillNa(x) == IF x.cls = "nan" THEN Cero ELSE x

\* x * 100
Por100(x) == IF IsFin(x) THEN Fin(x.n * 100, x.d) ELSE x

\* round(n/d) to an integer, ties to even (n >= 0, d > 0)
RoundHalfEven(n, d) ==
    LET q == n \div d
        r == n % d
    IN  IF 2 * r < d THEN q
        ELSE IF 2 * r > d THEN q + 1
        ELSE IF q % 2 = 0 THEN q ELSE q + 1


\* f"{v:,.2f}" (miles = TRUE) or f"{v:.2f}" (miles = FALSE) for a float v
FmtDosDecimales(v, miles) ==
    IF v.cls = "nan" THEN <<"n", "a", "n">>
    ELSE IF v.cls = "inf" THEN <<"i", "n", "f">>
    ELSE IF v.cls = "ninf" THEN <<"-", "i", "n", "f">>
    ELSE LET cent == RoundHalfEven(Abs(v.n) * 100, v.d)
             dec  == cent % 100
             ent  == Digits(cent \div 100)
         IN  (IF v.n < 0 THEN <<"-">> ELSE << >>)
             \o (IF miles THEN Miles(ent) ELSE ent) \o <<".">>
             \o << Chr(Ord("0") + (dec \div 10)), Chr(Ord("0") + (dec % 10)) >>

\* fmt_money(v) for the integer sums of the tables
fmt_money(v) == FmtEntero(v)

\* fmt_pct(v)
fmt_pct(v) == FmtDosDecimales(v, TRUE) \o <<"%">>

-----------------------------------------------------------------------------
(***************************************************************************)
(* DataFrames.  A DataFrame is [cols, rows]: the set of its column names   *)
(* and the sequence of its rows, each row a record of the modelled         *)
(* columns.  A column that is only tested for presence (FECHA) is in cols  *)
(* and not in the rows.                                                    *)
(***************************************************************************)
Idx(rows) == 1..Len(rows)

\* df[col].unique() as a set
Unique(rows, col) == { rows[i][col] : i \in Idx(rows) }

\* the sum of column col over the rows whose key column holds k
RECURSIVE SumaGrupo(_, _, _, _)
SumaGrupo(rows, keycol, k, col) ==
    IF rows = << >> THEN 0
    ELSE (IF Head(rows)[keycol] = k THEN Head(rows)[col] ELSE 0)
         + SumaGrupo(Tail(rows), keycol, k, col)

\* df[col].sum()
RECURSIVE Suma(_, _)
Suma(rows, col) ==
    IF rows = << >> THEN 0 ELSE Head(rows)[col] + Suma(Tail(rows), col)

\* the keys of df.groupby(col): the distinct values in ascending order, the
\* rows of a null key dropped (dropna=True)
GroupKeys(rows, col) == SortedStrs(Unique(rows, col) \ {NaNClave})

\* df[col].nunique(): nulls are not counted
NUnique(rows, col) == Cardinality(Unique(rows, col) \ {NaNClave})

\* the aggregation functions return None or a (df_display, df_export) pair
None == [ok |-> FALSE, display |-> << >>, export |-> << >>]

Par(display, export) == [ok |-> TRUE, display |-> display, export |-> export]

\* the concatenation of the sequences F[1], ..., F[n]
RECURSIVE Concat(_, _)
Concat(F, n) == IF n = 0 THEN << >> ELSE Concat(F, n - 1) \o F[n]

\* A cell of an object column: an int, a str or a null (NaN), as read_excel
\* leaves it.
Ent(n) == [t |-> "int", n |-> n, s |-> << >>]

Txt(s) == [t |-> "str", n |-> 0, s |-> s]

Nulo == [t |-> "nan", n |-> 0, s |-> << >>]

\* str(x) and Series.astype(str) of a cell
AsStr(c) ==
    CASE c.t = "int" -> (IF c.n < 0 THEN <<"-">> ELSE << >>) \o Digits(Abs(c.n))
      [] c.t = "str" -> c.s
      [] OTHER -> <<"n", "a", "n">>

-----------------------------------------------------------------------------
(***************************************************************************)
(* pages/ingreso_st.py: create_componente_table                            *)
(***************************************************************************)

\* not the source: the group percentage without .replace(...).fillna(0)
PctGrupoSinLimpieza(ejecutado, presupuesto) ==
    Por100(SerieDiv(ejecutado, presupuesto))

\* not the source: the group percentage as a fraction, not multiplied by 100
PctGrupoFraccion(ejecutado, presupuesto) ==
    FillNa(ReplaceInf(SerieDiv(ejecutado, presupuesto)))

\* lines 63-64 and 132-133: the execution percentage of a group
PctGrupo(ejecutado, presupuesto) ==
    Por100(FillNa(ReplaceInf(SerieDiv(ejecutado, presupuesto))))

\* the mean of the groups' percentages (n > 0 finite values)
RECURSIVE SumaPct(_)
SumaPct(ps) ==
    IF ps = << >> THEN Cero
    ELSE LET h == Head(ps)
             t == SumaPct(Tail(ps))
         IN  Fin(h.n * t.d + t.n * h.d, h.d * t.d)

MediaPct(ps) == LET s == SumaPct(ps) IN Fin(s.n, s.d * Len(ps))

\* lines 56-64: df_group, one row per CONCEPTO in key order
ComponenteGrupos(rows) ==
    LET ks == GroupKeys(rows, "CONCEPTO")
    IN  [ i \in 1..Len(ks) |->
            LET p == SumaGrupo(rows, "CONCEPTO", ks[i], "PRESUPUESTO")
                e == SumaGrupo(rows, "CONCEPTO", ks[i], "EJECUTADO")
            IN  [ CONCEPTO     |-> ks[i],
                  PRESUPUESTO  |-> p,
                  EJECUTADO    |-> e,
                  Diferencia   |-> e - p,
                  Pct_Ejecucion |-> PctGrupo(e, p) ] ]

\* not the source: the TOTAL percentage taken as the mean of the groups' percentages
TotalPctMedia(df_group, total_ejecutado, total_presupuesto) ==
    MediaPct([ i \in 1..Len(df_group) |-> df_group[i].Pct_Ejecucion ])

\* line 77: total_pct_ejecucion
TotalPct(df_group, total_ejecutado, total_presupuesto) ==
    IF total_presupuesto # 0
    THEN Por100(Fin(total_ejecutado, total_presupuesto))
    ELSE Cero

\* lines 66-78: total_row
ComponenteTotal(df_group) ==
    LET total_presupuesto == Suma(df_group, "PRESUPUESTO")
        total_ejecutado   == Suma(df_group, "EJECUTADO")
    IN  [ CONCEPTO      |-> TOTAL,
          PRESUPUESTO   |-> total_presupuesto,
          EJECUTADO     |-> total_ejecutado,
          Diferencia    |-> total_ejecutado - total_presupuesto,
          Pct_Ejecucion |-> TotalPct(df_group, total_ejecutado,
                                     total_presupuesto) ]

\* lines 93-110: df_display, the formatted copy of df_export
ComponenteDisplay(df_export) ==
    [ i \in 1..Len(df_export) |->
        [ Concepto      |-> df_export[i].CONCEPTO,
          Presupuesto   |-> fmt_money(df_export[i].PRESUPUESTO),
          Ejecutado     |-> fmt_money(df_export[i].EJECUTADO),
          Diferencia    |-> fmt_money(df_export[i].Diferencia),
          Pct_Ejecucion |-> fmt_pct(df_export[i].Pct_Ejecucion) ] ]

create_componente_table(d) ==
    IF \/ "CONCEPTO" \notin d.cols
       \/ NUnique(d.rows, "CONCEPTO") = 0
       \/ \A i \in Idx(d.rows) : d.rows[i].CONCEPTO = NA
    THEN None
    ELSE LET df_group  == ComponenteGrupos(d.rows)
             df_export == Append(df_group, ComponenteTotal(df_group))
         IN  Par(ComponenteDisplay(df_export), df_export)


-----------------------------------------------------------------------------
(***************************************************************************)
(* pages/ingreso_st.py: create_kpi_table and the month chart               *)
(***************************************************************************)

\* lines 144-147 (and 270-273, 698-701): the month-order dictionary; 0 stands
\* for a key the dictionary does not hold (.map yields NaN)
meses_orden(m) ==
    CASE m = ENE -> 1   [] m = FEB -> 2   [] m = MAR -> 3   [] m = ABR -> 4
      [] m = MAY -> 5   [] m = JUN -> 6   [] m = JUL -> 7   [] m = AGO -> 8
      [] m = SEP -> 9   [] m = OCT -> 10  [] m = NOV -> 11  [] m = DIC -> 12
      [] OTHER -> 0

\* .dropna(subset=[order]).sort_values(by=order), orden being the order column
\* (orden[i] the order of rows[i]): the rows whose order is known, by ascending
\* order; rows of equal order keep their sequence (the tables of the model are
\* far below the size at which the sort stops being stable)
OrdenarDropna(rows, orden) ==
    LET ps == [ i \in 1..Len(rows) |-> [r |-> rows[i], o |-> orden[i]] ]
        de(o) == LET qs == SelectSeq(ps, LAMBDA q : q.o = o)
                 IN  [ i \in 1..Len(qs) |-> qs[i].r ]
    IN  Concat([ o \in 1..12 |-> de(o) ], 12)

\* .sort_values(by=order) without dropna: the rows of unknown order come last
OrdenarNaUltimo(rows, orden) ==
    LET ps == [ i \in 1..Len(rows) |-> [r |-> rows[i], o |-> orden[i]] ]
        qs == SelectSeq(ps, LAMBDA q : q.o = 0)
    IN  OrdenarDropna(rows, orden) \o [ i \in 1..Len(qs) |-> qs[i].r ]

\* lines 123-133: df_group
KpiGrupos(rows, group_col) ==
    LET validos == SelectSeq(rows, LAMBDA r : r[group_col] # NA)
        ks      == GroupKeys(validos, group_col)
    IN  [ i \in 1..Len(ks) |->
            LET p == SumaGrupo(validos, group_col, ks[i], "TOTAL_PRESUPUESTO")
                e == SumaGrupo(validos, group_col, ks[i], "TOTAL_EJECUTADO")
            IN  [ clave         |-> ks[i],
                  Presupuesto   |-> p,
                  Ejecutado     |-> e,
                  Diferencia    |-> e - p,
                  Pct_Ejecucion |-> PctGrupo(e, p) ] ]

\* lines 143-150: the display table's order when the key is the month
KpiOrdenDisplay(d, group_col, df_export) ==
    IF group_col = "MES" /\ "FECHA" \in d.cols
    THEN OrdenarDropna(df_export,
             [ i \in 1..Len(df_export) |->
                 meses_orden(Upper(df_export[i].clave)) ])
    ELSE df_export

\* lines 153-157: the formatted columns
KpiFormato(rows) ==
    [ i \in 1..Len(rows) |->
        [ clave         |-> rows[i].clave,
          Presupuesto   |-> fmt_money(rows[i].Presupuesto),
          Ejecutado     |-> fmt_money(rows[i].Ejecutado),
          Diferencia    |-> fmt_money(rows[i].Diferencia),
          Pct_Ejecucion |-> fmt_pct(rows[i].Pct_Ejecucion) ] ]

\* not the source: create_kpi_table without the test of line 128
CreateKpiSinVacio(d, group_col) ==
    IF \/ group_col \notin d.cols
       \/ NUnique(d.rows, group_col) = 0
       \/ \A i \in Idx(d.rows) : d.rows[i][group_col] = NA
    THEN None
    ELSE LET df_group == KpiGrupos(d.rows, group_col)
         IN  Par(KpiFormato(KpiOrdenDisplay(d, group_col, df_group)), df_group)

create_kpi_table(d, group_col) ==
    IF \/ group_col \notin d.cols
       \/ NUnique(d.rows, group_col) = 0
       \/ \A i \in Idx(d.rows) : d.rows[i][group_col] = NA
    THEN None
    ELSE LET df_group == KpiGrupos(d.rows, group_col)
         IN  IF df_group = << >> THEN None
             ELSE Par(KpiFormato(KpiOrdenDisplay(d, group_col, df_group)),
                      df_group)

\* lines 681-704: df_chart, the rows the month chart of the ingreso page plots
\* (PCT_LABEL is f"{x:,.1f}%" and is not modelled)
IngresoChart(d) ==
    LET ks == GroupKeys(d.rows, "MES")
        df_chart == [ i \in 1..Len(ks) |->
            LET p == SumaGrupo(d.rows, "MES", ks[i], "TOTAL_PRESUPUESTO")
                e == SumaGrupo(d.rows, "MES", ks[i], "TOTAL_EJECUTADO")
            IN  [ MES                  |-> ks[i],
                  PRESUPUESTO          |-> p,
                  EJECUTADO            |-> e,
                  PORCENTAJE_EJECUCION |-> Por100(SerieDiv(e, p)) ] ]
        positivos == SelectSeq(df_chart, LAMBDA r : r.PRESUPUESTO > 0)
    IN  IF positivos = << >> THEN None
        ELSE Par(OrdenarDropna(positivos,
                     [ i \in 1..Len(positivos) |->
                         meses_orden(Strip(Upper(positivos[i].MES))) ]),
                 << >>)


-----------------------------------------------------------------------------
(***************************************************************************)
(* pages/poblacion_st.py: the month table and the month chart (BDUA)       *)
(***************************************************************************)
ENERO      == <<"E", "N", "E", "R", "O">>
FEBRERO    == <<"F", "E", "B", "R", "E", "R", "O">>
MARZO      == <<"M", "A", "R", "Z", "O">>
ABRIL      == <<"A", "B", "R", "I", "L">>
MAYO       == <<"M", "A", "Y", "O">>
JUNIO      == <<"J", "U", "N", "I", "O">>
JULIO      == <<"J", "U", "L", "I", "O">>
AGOSTO     == <<"A", "G", "O", "S", "T", "O">>
SEPTIEMBRE == <<"S", "E", "P", "T", "I", "E", "M", "B", "R", "E">>
OCTUBRE    == <<"O", "C", "T", "U", "B", "R", "E">>
NOVIEMBRE  == <<"N", "O", "V", "I", "E", "M", "B", "R", "E">>
DICIEMBRE  == <<"D", "I", "C", "I", "E", "M", "B", "R", "E">>

\* lines 14-18: MONTH_ORDER; 0 stands for a key the dictionary does not hold
MONTH_ORDER(m) ==
    CASE m = ENERO -> 1
      [] m = FEBRERO -> 2
      [] m = MARZO -> 3
      [] m = ABRIL -> 4
      [] m = MAYO -> 5
      [] m = JUNIO -> 6
      [] m = JULIO -> 7
      [] m = AGOSTO -> 8
      [] m = SEPTIEMBRE -> 9
      [] m = OCTUBRE -> 10
      [] m = NOVIEMBRE -> 11
      [] m = DICIEMBRE -> 12
      [] OTHER -> 0

\* np.where(presupuesto != 0, bdua / presupuesto * 100, 0)
PctWhere(num, den) == IF den # 0 THEN Por100(Fin(num, den)) ELSE Cero

\* (np.divide(num, den) * 100).replace([np.inf, -np.inf, np.nan], 0)
PctReplace(num, den) == FillNa(ReplaceInf(Por100(SerieDiv(num, den))))

\* lines 436-447 (and 399-411, 457-469): the grouped sums and the two ratios
BduaGrupos(rows, col) ==
    LET ks == GroupKeys(rows, col)
    IN  [ i \in 1..Len(ks) |->
            LET p    == SumaGrupo(rows, col, ks[i], "PRESUPUESTO")
                bdua == SumaGrupo(rows, col, ks[i], "POBLACION_BDUA")
                pais == SumaGrupo(rows, col, ks[i], "POBLACION_PAIS")
            IN  [ clave              |-> ks[i],
                  PRESUPUESTO        |-> p,
                  POBLACION_BDUA     |-> bdua,
                  POBLACION_PAIS     |-> pais,
                  Participacion_Pais |-> PctReplace(bdua, pais),
                  Pct_Ejecucion      |-> PctWhere(bdua, p) ] ]

\* lines 524-531: TABLE_FORMAT applied by Styler.format
BduaFormato(rows) ==
    [ i \in 1..Len(rows) |->
        [ clave              |-> rows[i].clave,
          Presupuesto        |-> FmtEntero(rows[i].PRESUPUESTO),
          Poblacion_BDUA     |-> FmtEntero(rows[i].POBLACION_BDUA),
          Pct_Ejecucion      |->
              FmtDosDecimales(rows[i].Pct_Ejecucion, FALSE) \o <<"%">>,
          Poblacion_PAIS     |-> FmtEntero(rows[i].POBLACION_PAIS),
          Participacion_Pais |->
              FmtDosDecimales(rows[i].Participacion_Pais, FALSE) \o <<"%">> ] ]

\* lines 432-451 and 590-605: df_mes_viz and the table shown from it
BduaTablaMes(d) ==
    IF "MES" \notin d.cols THEN None
    ELSE LET g == BduaGrupos(d.rows, "MES")
             df_mes_viz ==
                 OrdenarNaUltimo(g, [ i \in 1..Len(g) |->
                                        MONTH_ORDER(g[i].clave) ])
         IN  IF df_mes_viz = << >> THEN None
             ELSE Par(BduaFormato(df_mes_viz), << >>)

\* lines 727-748: df_chart, the rows the month chart of the BDUA page plots
BduaChart(d) ==
    IF d.rows = << >> THEN None
    ELSE LET ks == GroupKeys(d.rows, "MES")
             g  == [ i \in 1..Len(ks) |->
                       [ MES            |-> ks[i],
                         PRESUPUESTO    |->
                             SumaGrupo(d.rows, "MES", ks[i], "PRESUPUESTO"),
                         POBLACION_BDUA |->
                             SumaGrupo(d.rows, "MES", ks[i], "POBLACION_BDUA") ] ]
             df_chart == OrdenarDropna(g, [ i \in 1..Len(g) |->
                                              MONTH_ORDER(g[i].MES) ])
         IN  IF df_chart = << >> THEN None
             ELSE Par([ i \in 1..Len(df_chart) |->
                          [ MES            |-> df_chart[i].MES,
                            PRESUPUESTO    |-> df_chart[i].PRESUPUESTO,
                            POBLACION_BDUA |-> df_chart[i].POBLACION_BDUA,
                            PORCENTAJE_EJECUCION |->
                                PctWhere(df_chart[i].POBLACION_BDUA,
                                         df_chart[i].PRESUPUESTO) ] ],
                      << >>)

-----------------------------------------------------------------------------
(***************************************************************************)
(* pages/poblacion_sgsss_st.py: the profile tables of tab 4                *)
(***************************************************************************)

\* .sort_values(by='Afiliados', ascending=False): the first row of the largest
\* value comes first
RECURSIVE OrdenarPorAfiliados(_)
OrdenarPorAfiliados(rows) ==
    IF rows = << >> THEN << >>
    ELSE LET i == CHOOSE i \in Idx(rows) :
                    /\ \A j \in Idx(rows) : rows[j].Afiliados <= rows[i].Afiliados
                    /\ \A j \in 1..(i - 1) : rows[j].Afiliados < rows[i].Afiliados
         IN  <<rows[i]>>
             \o OrdenarPorAfiliados(SubSeq(rows, 1, i - 1)
                                    \o SubSeq(rows, i + 1, Len(rows)))

\* lines 503-512: df_tabla_dim_descarga for the dimension dim
PerfilDescarga(rows, dim) ==
    LET ks        == GroupKeys(rows, dim)
        total_eps == Suma(rows, "TOTAL")
    IN  OrdenarPorAfiliados(
            [ i \in 1..Len(ks) |->
                LET t == SumaGrupo(rows, dim, ks[i], "TOTAL")
                IN  [ clave         |-> ks[i],
                      Afiliados     |-> t,
                      Participacion |-> Por100(SerieDiv(t, total_eps)) ] ])

\* lines 514-516: df_tabla_dim_mostrar
PerfilMostrar(descarga) ==
    [ i \in 1..Len(descarga) |->
        [ clave         |-> descarga[i].clave,
          Afiliados     |-> FmtEntero(descarga[i].Afiliados),
          Participacion |->
              FmtDosDecimales(descarga[i].Participacion, FALSE) \o <<"%">> ] ]

\* lines 489-529: the profile of one EPS by one dimension, shown and exported
SgsssPerfil(d, eps, dim) ==
    LET df_perfil_eps == SelectSeq(d.rows, LAMBDA r : r.ENTIDAD = eps)
        descarga      == PerfilDescarga(df_perfil_eps, dim)
    IN  Par(PerfilMostrar(descarga), descarga)


-----------------------------------------------------------------------------
(***************************************************************************)
(* The aggregation specification: a dataset of one of the pages, and the   *)
(* aggregation functions of that page applied to it.                       *)
(***************************************************************************)

\* all sequences over S of length at most n
SeqsUpTo(S, n) == UNION { [1..k -> S] : k \in 0..n }

XX   == <<"X", "X">>
ene  == <<"e", "n", "e">>
UPC  == <<"U", "P", "C">>
PYP  == <<"P", "Y", "P">>
EPS1 == <<"E", "P", "S", "1">>
EPS2 == <<"E", "P", "S", "2">>
Fem  == <<"F">>
Masc == <<"M">>

\* the columns of the ingreso dataset after the pre-processing of lines 239-284
\* (FECHA is always created at line 277)
ColsIngreso == {"MES", "TOTAL_PRESUPUESTO", "TOTAL_EJECUTADO", "FECHA"}

ColsComponentes == {"CONCEPTO", "PRESUPUESTO", "EJECUTADO"}

ColsBdua == {"MES", "PRESUPUESTO", "POBLACION_BDUA", "POBLACION_PAIS"}

ColsSgsss == {"ENTIDAD", "GENERO", "TOTAL"}

FilaIngreso(m, p, e) ==
    [MES |-> m, TOTAL_PRESUPUESTO |-> p, TOTAL_EJECUTADO |-> e]

FilaComponente(c, p, e) == [CONCEPTO |-> c, PRESUPUESTO |-> p, EJECUTADO |-> e]

FilasIngreso ==
    { FilaIngreso(m, p, e) : m \in {DIC, ENE, XX, NA, NaNClave}, p \in {0, 2},
                             e \in {-1, 0, 1} }

FilasComponentes ==
    { FilaComponente(c, p, e) : c \in {UPC, PYP, NA, NaNClave}, p \in {0, 1, 2},
                                e \in {-1, 0, 1} }

FilasBdua ==
    { [MES |-> m, PRESUPUESTO |-> p, POBLACION_BDUA |-> b, POBLACION_PAIS |-> q] :
        m \in {DICIEMBRE, ENERO, ENE}, p \in {0, 1}, b \in {0, 1}, q \in {0, 2} }

FilasSgsss ==
    { [ENTIDAD |-> n, GENERO |-> g, TOTAL |-> t] :
        n \in {EPS1, EPS2}, g \in {Fem, Masc}, t \in {0, 1, 2} }

\* the datasets of the examples of the specification (sections 8.2, 8.6, 8.8)
EjemploTotal ==
    << FilaComponente(UPC, 50, 10), FilaComponente(PYP, 200, 90) >>

EjemploEscenarioComponentes ==
    << FilaComponente(ENE, 100, 80), FilaComponente(ENE, 50, 60),
       FilaComponente(FEB, 200, 0) >>

EjemploEscenarioIngreso ==
    << FilaIngreso(ENE, 100, 80), FilaIngreso(ENE, 50, 60),
       FilaIngreso(FEB, 200, 0) >>

EjemploMeses ==
    << FilaIngreso(MAR, 1, 1), FilaIngreso(ENE, 2, 1), FilaIngreso(DIC, 1, 0) >>

EjemploMinusculas ==
    << FilaIngreso(MAR, 1, 1), FilaIngreso(ene, 2, 1) >>

Paginas == {"ingreso", "componentes", "bdua", "sgsss"}

Datos(pag) ==
    CASE pag = "ingreso" ->
           { [cols |-> ColsIngreso, rows |-> r] :
               r \in SeqsUpTo(FilasIngreso, MaxRows)
                     \cup {EjemploEscenarioIngreso, EjemploMeses,
                           EjemploMinusculas} }
      [] pag = "componentes" ->
           { [cols |-> ColsComponentes, rows |-> r] :
               r \in SeqsUpTo(FilasComponentes, MaxRows)
                     \cup {EjemploTotal, EjemploEscenarioComponentes} }
           \cup { [cols |-> ColsComponentes \ {"CONCEPTO"},
                   rows |-> << [PRESUPUESTO |-> p, EJECUTADO |-> p - 1] >>] :
                     p \in {0, 1} }
      [] pag = "bdua" ->
           { [cols |-> ColsBdua, rows |-> r] : r \in SeqsUpTo(FilasBdua, MaxRows) }
      [] pag = "sgsss" ->
           { [cols |-> ColsSgsss, rows |-> r] :
               r \in SeqsUpTo(FilasSgsss, MaxRows) }

SinTabla == [fn |-> "none", col |-> "", eps |-> << >>, res |-> None]

Llamada(fn, col, res) == [fn |-> fn, col |-> col, eps |-> << >>, res |-> res]

\* the variables of the other specifications, unused here
SinFiltro ==
    /\ df_arg = [cols |-> {}, rows |-> << >>]
    /\ df_prev = [cols |-> {}, rows |-> << >>]
    /\ df_ret = [cols |-> {}, rows |-> << >>]
    /\ llamada = [fn |-> "none", col |-> "", valor |-> Nulo]
    /\ df_base = [cols |-> {}, rows |-> << >>]
    /\ activos = {}

SinJoin ==
    /\ df_poblacion = [cols |-> {}, rows |-> << >>]
    /\ df_geo = [cols |-> {}, rows |-> << >>]
    /\ df_merged = [fn |-> "none", aviso |-> FALSE, cols |-> {}, rows |-> << >>]

varsFiltro == <<df_arg, df_prev, df_ret, llamada, df_base, activos>>

varsJoin == <<df_poblacion, df_geo, df_merged>>

\* lines 198-205, 272-276 of poblacion_st.py: the keys a first render creates
SessionInicial ==
    [ filtro_ano |-> Txt(<<"2", "0", "2", "5">>),
      filtro_mes |-> Txt(<<"T", "O", "D", "O", "S">>),
      filtro_subregion |-> Txt(<<"T", "O", "D", "O", "S">>) ]

\* what the tabs of a page show: "datos" (the section is drawn from its
\* data), "sin_datos" (the section shows its notice of no data) or "nada"
\* (the render returned before the section)
SinSecciones ==
    [ kpis |-> "nada", detalle |-> "nada", graficos |-> "nada",
      componentes |-> "nada" ]

SinOpciones == [ano |-> << >>, mes |-> << >>, subregion |-> << >>]

SinRenderVista ==
    [ fn |-> "none", evento |-> "none",
      ano |-> Nulo, mes |-> Nulo, subregion |-> Nulo,
      kpis |-> << >>, trend |-> << >>,
      abortada |-> FALSE, avisos |-> {}, secciones |-> SinSecciones,
      opciones |-> SinOpciones,
      defecto |-> [ano |-> Nulo, mes |-> Nulo, subregion |-> Nulo],
      mes_previo |-> Nulo, mes_ajustado |-> Nulo ]

\* the loaders returned the main dataset, the geography reference, and no
\* components sheet
CargaCompleta == [estado |-> "ok", comp |-> << >>]

\* the SGSSS page before its first render
SinSgsss ==
    [ fn |-> "none", df_data |-> << >>, periodo |-> Nulo,
      eps_seleccionadas |-> << >>, regimen_seleccionado |-> "",
      df_filtrado |-> << >>, top_10_eps |-> {}, ranking |-> << >>,
      evolucion |-> [tabla |-> << >>, crecimiento |-> << >>] ]

SinRender ==
    /\ session_state = SessionInicial
    /\ render = SinRenderVista
    /\ carga = CargaCompleta
    /\ sgsss = SinSgsss

varsRender == <<session_state, render, carga, sgsss>>

SinHoja == [original |-> << >>, antes |-> << >>, columns |-> << >>, veces |-> 0]

InitAgg ==
    /\ pagina \in Paginas
    /\ df \in Datos(pagina)
    /\ tabla = SinTabla
    /\ SinFiltro
    /\ SinJoin
    /\ SinRender
    /\ hoja = SinHoja

\* ingreso_st.py lines 594, 607, 620, 633: a detail table by a grouping column
\* (REGIONAL is absent from the dataset when the geography was not joined)
CrearKpiTable ==
    /\ pagina = "ingreso"
    /\ \E group_col \in {"MES", "REGIONAL"} :
          tabla' = Llamada("create_kpi_table", group_col,
                           create_kpi_table(df, group_col))
    /\ UNCHANGED <<pagina, df, varsFiltro, varsJoin, varsRender, hoja>>

\* ingreso_st.py lines 676-756: the month chart
GraficarMesIngreso ==
    /\ pagina = "ingreso"
    /\ tabla' = Llamada("ingreso_chart", "MES", IngresoChart(df))
    /\ UNCHANGED <<pagina, df, varsFiltro, varsJoin, varsRender, hoja>>

\* ingreso_st.py line 770
CrearComponenteTable ==
    /\ pagina = "componentes"
    /\ tabla' = Llamada("create_componente_table", "CONCEPTO",
                        create_componente_table(df))
    /\ UNCHANGED <<pagina, df, varsFiltro, varsJoin, varsRender, hoja>>

\* poblacion_st.py lines 432-451, 588-605
TablaMesBdua ==
    /\ pagina = "bdua"
    /\ tabla' = Llamada("bdua_tabla_mes", "MES", BduaTablaMes(df))
    /\ UNCHANGED <<pagina, df, varsFiltro, varsJoin, varsRender, hoja>>

\* poblacion_st.py lines 727-800
GraficarMesBdua ==
    /\ pagina = "bdua"
    /\ tabla' = Llamada("bdua_chart", "MES", BduaChart(df))
    /\ UNCHANGED <<pagina, df, varsFiltro, varsJoin, varsRender, hoja>>

\* poblacion_sgsss_st.py lines 481-529: the selected EPS is one of the filtered
\* dataset's entities
PerfilSgsss ==
    /\ pagina = "sgsss"
    /\ \E eps \in Unique(df.rows, "ENTIDAD") :
          tabla' = [fn |-> "sgsss_perfil", col |-> "GENERO", eps |-> eps,
                    res |-> SgsssPerfil(df, eps, "GENERO")]
    /\ UNCHANGED <<pagina, df, varsFiltro, varsJoin, varsRender, hoja>>

NextAgg ==
    \/ CrearKpiTable
    \/ GraficarMesIngreso
    \/ CrearComponenteTable
    \/ TablaMesBdua
    \/ GraficarMesBdua
    \/ PerfilSgsss

SpecAgg == InitAgg /\ [][NextAgg]_vars


-----------------------------------------------------------------------------
(***************************************************************************)
(* Properties of the aggregations.                                         *)
(***************************************************************************)

\* the input rows that are aggregated: groupby leaves out the rows whose key
\* is null
Agregadas(rows, col) == SelectSeq(rows, LAMBDA r : r[col] # NaNClave)

\* the sum of column col over the input rows whose column keycol holds k
SumaDonde(rows, keycol, k, col) ==
    Suma(SelectSeq(rows, LAMBDA r : r[keycol] = k), col)

EsComponente == tabla.fn = "create_componente_table" /\ tabla.res.ok

EsKpi == tabla.fn = "create_kpi_table" /\ tabla.res.ok

\* the group rows of the componentes export table, and its TOTAL row
GruposComponente == SubSeq(tabla.res.export, 1, Len(tabla.res.export) - 1)

TotalComponente == tabla.res.export[Len(tabla.res.export)]

\* the text "40.00%"
Texto40 == <<"4", "0", ".", "0", "0", "%">>

\* C1: the TOTAL row of create_componente_table holds
\* sum(EJECUTADO) / sum(PRESUPUESTO) * 100 over all the input rows, whatever the
\* mean of the groups' percentages is; the groups (10, 50) and (90, 200) give 40.
ThmTotalRowRatio ==
    EsComponente =>
        LET sp == Suma(Agregadas(df.rows, "CONCEPTO"), "PRESUPUESTO")
            se == Suma(Agregadas(df.rows, "CONCEPTO"), "EJECUTADO")
            t  == TotalComponente
        IN  /\ t.CONCEPTO = TOTAL
            /\ t.PRESUPUESTO = sp
            /\ t.EJECUTADO = se
            /\ sp # 0 => FEq(t.Pct_Ejecucion, Fin(100 * se, sp))
            /\ df.rows = EjemploTotal =>
                  /\ FEq(t.Pct_Ejecucion, Fin(40, 1))
                  /\ tabla.res.display[Len(tabla.res.display)].Pct_Ejecucion
                       = Texto40

\* C1 witness: a TOTAL row whose percentage differs from the mean of the groups'
WitTotalRowRatio ==
    /\ EsComponente
    /\ Len(GruposComponente) >= 2
    /\ Suma(Agregadas(df.rows, "CONCEPTO"), "PRESUPUESTO") # 0
    /\ ~ FEq(TotalComponente.Pct_Ejecucion,
             MediaPct([ i \in 1..Len(GruposComponente) |->
                          GruposComponente[i].Pct_Ejecucion ]))

\* the texts a NaN or an infinite percentage is shown as
TextosNoFinitos ==
    { <<"n", "a", "n", "%">>, <<"i", "n", "f", "%">>,
      <<"-", "i", "n", "f", "%">> }

\* C2: in create_kpi_table and create_componente_table a group whose summed
\* budget is 0 has the percentage 0, a TOTAL row whose summed budget is 0 has
\* the percentage 0, and no row holds NaN or an infinite percentage.
ThmZeroSafety ==
    /\ EsKpi /\ tabla.col = "MES" =>
          /\ \A i \in Idx(tabla.res.export) :
                LET r == tabla.res.export[i]
                IN  /\ IsFin(r.Pct_Ejecucion)
                    /\ SumaDonde(df.rows, "MES", r.clave, "TOTAL_PRESUPUESTO") = 0
                          => IsCero(r.Pct_Ejecucion)
          /\ \A i \in Idx(tabla.res.display) :
                tabla.res.display[i].Pct_Ejecucion \notin TextosNoFinitos
    /\ EsComponente =>
          /\ \A i \in Idx(GruposComponente) :
                LET r == GruposComponente[i]
                IN  /\ IsFin(r.Pct_Ejecucion)
                    /\ SumaDonde(df.rows, "CONCEPTO", r.CONCEPTO, "PRESUPUESTO") = 0
                          => IsCero(r.Pct_Ejecucion)
          /\ IsFin(TotalComponente.Pct_Ejecucion)
          /\ Suma(Agregadas(df.rows, "CONCEPTO"), "PRESUPUESTO") = 0
                => IsCero(TotalComponente.Pct_Ejecucion)
          /\ \A i \in Idx(tabla.res.display) :
                tabla.res.display[i].Pct_Ejecucion \notin TextosNoFinitos

\* C2 witness: a componentes table with a zero budget in a group (executed not
\* zero) and in the TOTAL row, and a kpi table likewise
WitZeroSafety ==
    \/ /\ EsComponente
       /\ Suma(df.rows, "PRESUPUESTO") = 0
       /\ \E i \in Idx(GruposComponente) :
             /\ GruposComponente[i].PRESUPUESTO = 0
             /\ GruposComponente[i].EJECUTADO # 0
             /\ IsCero(GruposComponente[i].Pct_Ejecucion)
    \/ /\ EsKpi
       /\ \E i \in Idx(tabla.res.export) :
             /\ tabla.res.export[i].Presupuesto = 0
             /\ tabla.res.export[i].Ejecutado < 0

\* the percentages of the export table, and the percentage texts of the
\* display table, of the last call (a chart is no table)
PctsExportados ==
    CASE tabla.fn \in {"create_kpi_table", "create_componente_table"} ->
           { tabla.res.export[i].Pct_Ejecucion : i \in Idx(tabla.res.export) }
      [] tabla.fn = "sgsss_perfil" ->
           { tabla.res.export[i].Participacion : i \in Idx(tabla.res.export) }
      [] OTHER -> {}

PctsMostrados ==
    CASE tabla.fn \in {"create_kpi_table", "create_componente_table"} ->
           { tabla.res.display[i].Pct_Ejecucion : i \in Idx(tabla.res.display) }
      [] tabla.fn = "sgsss_perfil" ->
           { tabla.res.display[i].Participacion : i \in Idx(tabla.res.display) }
      [] tabla.fn = "bdua_tabla_mes" ->
           { tabla.res.display[i].Pct_Ejecucion : i \in Idx(tabla.res.display) }
           \cup { tabla.res.display[i].Participacion_Pais :
                    i \in Idx(tabla.res.display) }
      [] OTHER -> {}

\* C3: on every page no NaN and no infinite percentage reaches a displayed
\* table or an export table.
CexSinNaNEnTablas ==
    /\ \A v \in PctsExportados : IsFin(v)
    /\ \A t \in PctsMostrados : t \notin TextosNoFinitos

\* the texts of the example of section 8.6
Texto9333 == <<"9", "3", ".", "3", "3", "%">>

Texto000 == <<"0", ".", "0", "0", "%">>

\* C4: the grouped aggregation has one row per key holding the sums of the
\* budget and of the executed amount, their difference and executed / budget *
\* 100; the rows (ENE,100,80), (ENE,50,60), (FEB,200,0) give ENE 150, 140, -10,
\* 93.33%, FEB 200, 0, -200, 0.00% and TOTAL 350, 140, -210, 40.00%.
ThmGroupedAggregation ==
    /\ EsKpi /\ tabla.col = "MES" =>
          LET ex == tabla.res.export
          IN  /\ { ex[i].clave : i \in Idx(ex) } = Unique(df.rows, "MES") \ {NA, NaNClave}
              /\ \A i, j \in Idx(ex) : ex[i].clave = ex[j].clave => i = j
              /\ \A i \in Idx(ex) :
                    LET p == SumaDonde(df.rows, "MES", ex[i].clave,
                                       "TOTAL_PRESUPUESTO")
                        e == SumaDonde(df.rows, "MES", ex[i].clave,
                                       "TOTAL_EJECUTADO")
                    IN  /\ ex[i].Presupuesto = p
                        /\ ex[i].Ejecutado = e
                        /\ ex[i].Diferencia = e - p
                        /\ p # 0 => FEq(ex[i].Pct_Ejecucion, Fin(100 * e, p))
              /\ df.rows = EjemploEscenarioIngreso =>
                    /\ Len(ex) = 2
                    /\ ex[1].clave = ENE /\ ex[1].Presupuesto = 150
                    /\ ex[1].Ejecutado = 140 /\ ex[1].Diferencia = -10
                    /\ ex[2].clave = FEB /\ ex[2].Presupuesto = 200
                    /\ ex[2].Ejecutado = 0 /\ ex[2].Diferencia = -200
                    /\ tabla.res.display[1].Pct_Ejecucion = Texto9333
                    /\ tabla.res.display[2].Pct_Ejecucion = Texto000
    /\ EsComponente =>
          LET ex == GruposComponente
              t  == TotalComponente
              ds == tabla.res.display
          IN  /\ { ex[i].CONCEPTO : i \in Idx(ex) }
                    = Unique(df.rows, "CONCEPTO") \ {NaNClave}
              /\ \A i, j \in Idx(ex) : ex[i].CONCEPTO = ex[j].CONCEPTO => i = j
              /\ \A i \in Idx(ex) :
                    LET p == SumaDonde(df.rows, "CONCEPTO", ex[i].CONCEPTO,
                                       "PRESUPUESTO")
                        e == SumaDonde(df.rows, "CONCEPTO", ex[i].CONCEPTO,
                                       "EJECUTADO")
                    IN  /\ ex[i].PRESUPUESTO = p
                        /\ ex[i].EJECUTADO = e
                        /\ ex[i].Diferencia = e - p
                        /\ p # 0 => FEq(ex[i].Pct_Ejecucion, Fin(100 * e, p))
              /\ t.Diferencia = t.EJECUTADO - t.PRESUPUESTO
              /\ df.rows = EjemploEscenarioComponentes =>
                    /\ Len(ex) = 2
                    /\ ex[1].CONCEPTO = ENE /\ ex[1].PRESUPUESTO = 150
                    /\ ex[1].EJECUTADO = 140 /\ ex[1].Diferencia = -10
                    /\ FEq(ex[1].Pct_Ejecucion, Fin(280, 3))
                    /\ ex[2].CONCEPTO = FEB /\ ex[2].PRESUPUESTO = 200
                    /\ ex[2].EJECUTADO = 0 /\ ex[2].Diferencia = -200
                    /\ IsCero(ex[2].Pct_Ejecucion)
                    /\ t.CONCEPTO = TOTAL /\ t.PRESUPUESTO = 350
                    /\ t.EJECUTADO = 140 /\ t.Diferencia = -210
                    /\ FEq(t.Pct_Ejecucion, Fin(40, 1))
                    /\ ds[1].Pct_Ejecucion = Texto9333
                    /\ ds[2].Pct_Ejecucion = Texto000
                    /\ ds[3].Pct_Ejecucion = Texto40
                    /\ ds[3].Presupuesto = <<"3", "5", "0">>
                    /\ ds[3].Diferencia = <<"-", "2", "1", "0">>

\* C4 witness: the table of the example, aggregated with its TOTAL row
WitGroupedAggregation ==
    /\ EsComponente
    /\ df.rows = EjemploEscenarioComponentes
    /\ Len(tabla.res.export) = 3

\* the keys of a table are in calendar order (keys the dictionary does not
\* hold apart)
EnOrdenCalendario(rows) ==
    \A i, j \in Idx(rows) :
        /\ i < j
        /\ meses_orden(Upper(rows[i].clave)) # 0
        /\ meses_orden(Upper(rows[j].clave)) # 0
        => meses_orden(Upper(rows[i].clave)) <= meses_orden(Upper(rows[j].clave))

Claves(rows) == [ i \in 1..Len(rows) |-> rows[i].clave ]

\* C5: when the grouping key is the month, the export table and the display
\* table of create_kpi_table are both in calendar order; the months MAR, ENE,
\* DIC come out as ENE, MAR, DIC.
CexOrdenCalendario ==
    EsKpi /\ tabla.col = "MES" =>
        /\ EnOrdenCalendario(tabla.res.display)
        /\ EnOrdenCalendario(tabla.res.export)
        /\ df.rows = EjemploMeses =>
              /\ Claves(tabla.res.display) = <<ENE, MAR, DIC>>
              /\ Claves(tabla.res.export) = <<ENE, MAR, DIC>>

\* C6: no by-month output (the month table and the month chart of the ingreso
\* page, the month table and the month chart of the BDUA page) holds a group
\* whose month the page's dictionary does not recognise.
CexMesDesconocidoExcluido ==
    /\ EsKpi /\ tabla.col = "MES" =>
          \A i \in Idx(tabla.res.display) :
              meses_orden(Upper(tabla.res.display[i].clave)) # 0
    /\ tabla.fn = "ingreso_chart" =>
          \A i \in Idx(tabla.res.display) :
              meses_orden(Strip(Upper(tabla.res.display[i].MES))) # 0
    /\ tabla.fn = "bdua_tabla_mes" =>
          \A i \in Idx(tabla.res.display) :
              MONTH_ORDER(tabla.res.display[i].clave) # 0
    /\ tabla.fn = "bdua_chart" =>
          \A i \in Idx(tabla.res.display) :
              MONTH_ORDER(tabla.res.display[i].MES) # 0


\* C15: create_kpi_table and create_componente_table return None when the
\* grouping column is absent, has no value that is not null, or holds only
\* "N/A" (create_kpi_table also when every row has a "N/A" or null key), and a
\* (display, export) pair with at least one group in every other case.
ThmSinDatos ==
    /\ tabla.fn = "create_kpi_table" =>
          ( tabla.res.ok <=>
              /\ tabla.col \in df.cols
              /\ \E i \in Idx(df.rows) :
                    df.rows[i][tabla.col] \notin {NA, NaNClave} )
    /\ tabla.fn = "create_componente_table" =>
          ( tabla.res.ok <=>
              /\ "CONCEPTO" \in df.cols
              /\ \E i \in Idx(df.rows) : df.rows[i].CONCEPTO # NaNClave
              /\ \E i \in Idx(df.rows) : df.rows[i].CONCEPTO # NA )
    /\ tabla.fn \in {"create_kpi_table", "create_componente_table"} =>
          IF tabla.res.ok THEN tabla.res.export # << >> ELSE tabla.res = None

\* C15 witness: create_kpi_table on rows whose keys are "N/A" and null, which
\* pass the guard of line 120 and leave no group
WitSinDatos ==
    /\ tabla.fn = "create_kpi_table"
    /\ tabla.col = "MES"
    /\ Unique(df.rows, "MES") = {NA, NaNClave}
    /\ tabla.res = None

\* C16: the display table and the export table of one aggregation call hold
\* the same group keys, one row per key, in the same order, whatever the
\* grouping column (MES included).
CexTablasAlineadas ==
    /\ EsKpi =>
          /\ Claves(tabla.res.display) = Claves(tabla.res.export)
          /\ \A i, j \in Idx(tabla.res.export) :
                tabla.res.export[i].clave = tabla.res.export[j].clave => i = j
    /\ EsComponente =>
          /\ Len(tabla.res.display) = Len(tabla.res.export)
          /\ \A i \in Idx(tabla.res.export) :
                tabla.res.display[i].Concepto = tabla.res.export[i].CONCEPTO
          /\ \A i, j \in Idx(tabla.res.export) :
                tabla.res.export[i].CONCEPTO = tabla.res.export[j].CONCEPTO
                    => i = j

-----------------------------------------------------------------------------
(***************************************************************************)
(* pages/ingreso_st.py: aplicar_filtro_select; pages/poblacion_st.py: the  *)
(* year, month and regime filters.  The cells of the filtered columns are  *)
(* typed (Ent, Txt), since the applicator converts them with astype(str).  *)
(***************************************************************************)
Todos == <<"T", "o", "d", "o", "s">>

TODOS == <<"T", "O", "D", "O", "S">>

\* str.swapcase()
SwapCase(s) ==
    [ i \in 1..Len(s) |->
        IF IsLower(s[i]) THEN UpperChar(s[i])
        ELSE IF Ord(s[i]) >= Ord("A") /\ Ord(s[i]) <= Ord("Z")
             THEN Chr(Ord(s[i]) + (Ord("a") - Ord("A")))
             ELSE s[i] ]

\* not the source: the column normalized with swapcase in place of upper
NormColSwapCase(rows, col) ==
    [ i \in 1..Len(rows) |->
        [ rows[i] EXCEPT ![col] = Txt(Strip(SwapCase(AsStr(@)))) ] ]

\* line 446: df[col].astype(str).str.upper().str.strip(), written into df
NormCol(rows, col) ==
    [ i \in 1..Len(rows) |->
        [ rows[i] EXCEPT ![col] = Txt(Strip(Upper(AsStr(@)))) ] ]

\* the content of the DataFrame passed as df once the call has returned
\* (line 446 assigns through df.loc[:, col], on the argument itself)
FiltroArg(d, col, valor_seleccionado) ==
    IF col \notin d.cols \/ valor_seleccionado = Txt(Todos)
    THEN d
    ELSE [ d EXCEPT !.rows = NormCol(d.rows, col) ]

\* not the source: the applicator without the test of the "Todos" sentinel
AplicarSinCentinela(d, col, valor_seleccionado) ==
    IF col \notin d.cols
    THEN d
    ELSE LET valor_seleccionado_str == Strip(Upper(AsStr(valor_seleccionado)))
         IN  [ d EXCEPT !.rows =
                 SelectSeq(NormCol(d.rows, col),
                           LAMBDA r : r[col] = Txt(valor_seleccionado_str)) ]

\* not the source: the selection made on the column as it is, without
\* normalizing it
AplicarSinNormalizar(d, col, valor_seleccionado) ==
    IF col \notin d.cols \/ valor_seleccionado = Txt(Todos)
    THEN d
    ELSE LET valor_seleccionado_str == Strip(Upper(AsStr(valor_seleccionado)))
         IN  [ d EXCEPT !.rows =
                 SelectSeq(d.rows,
                           LAMBDA r : AsStr(r[col]) = valor_seleccionado_str) ]

\* lines 435-449: the DataFrame the call returns
aplicar_filtro_select(d, col, valor_seleccionado) ==
    IF col \notin d.cols \/ valor_seleccionado = Txt(Todos)
    THEN d
    ELSE LET valor_seleccionado_str == Strip(Upper(AsStr(valor_seleccionado)))
         IN  [ d EXCEPT !.rows =
                 SelectSeq(NormCol(d.rows, col),
                           LAMBDA r : r[col] = Txt(valor_seleccionado_str)) ]

\* poblacion_st.py lines 219-221, 241-243, 249-251:
\* if selected != 'TODOS': df_temp = df_temp[df_temp[col] == selected]
FiltrarBdua(df_temp, col, selected) ==
    IF selected # Txt(TODOS)
    THEN [ df_temp EXCEPT !.rows = SelectSeq(@, LAMBDA r : r[col] = selected) ]
    ELSE df_temp

A2024 == <<"2", "0", "2", "4">>

A2025 == <<"2", "0", "2", "5">>

ene_sp == <<"e", "n", "e", " ">>

ColsFiltro == {"ANO", "MES"}

\* the ingreso dataset as read_excel leaves it: the year a number, the month
\* a text in any case, possibly padded
FilasFiltroIngreso ==
    { [ANO |-> a, MES |-> m] :
        a \in {Ent(2024), Ent(2025)}, m \in {Txt(ENE), Txt(ene_sp), Txt(FEB)} }

\* the BDUA dataset after load_data (lines 120-137): ANO and MES are str, MES
\* upper-cased
FilasFiltroBdua ==
    { [ANO |-> a, MES |-> m] :
        a \in {Txt(A2024), Txt(A2025)}, m \in {Txt(ENERO), Txt(FEBRERO)} }

DatosFiltro(pag) ==
    { [cols |-> ColsFiltro, rows |-> r] :
        r \in SeqsUpTo(IF pag = "ingreso" THEN FilasFiltroIngreso
                       ELSE FilasFiltroBdua, MaxRows) }

\* the (col, valor_seleccionado) pairs the ingreso page may pass (ZONAL is a
\* column the dataset lacks when the geography was not joined)
LlamadasIngreso ==
    ({"ANO"} \X {Txt(A2025), Txt(Todos)})
    \cup ({"MES"} \X {Txt(Todos), Txt(TODOS), Txt(ENE), Txt(ene_sp)})
    \cup ({"ZONAL"} \X {Txt(Todos), Txt(ENE)})

LlamadasBdua ==
    ({"ANO"} \X {Txt(A2025), Txt(TODOS)})
    \cup ({"MES"} \X {Txt(TODOS), Txt(Todos), Txt(ENERO)})

SinAgg ==
    /\ df = [cols |-> {}, rows |-> << >>]
    /\ tabla = SinTabla

InitFiltro ==
    /\ pagina \in {"ingreso", "bdua"}
    /\ df_ret \in DatosFiltro(pagina)
    /\ df_arg = df_ret
    /\ df_prev = df_ret
    /\ llamada = [fn |-> "none", col |-> "", valor |-> Nulo]
    /\ df_base = df_ret
    /\ activos = {}
    /\ SinAgg
    /\ SinJoin
    /\ SinRender
    /\ hoja = SinHoja

\* ingreso_st.py lines 456-487: df_x = aplicar_filtro_select(df_x, col, valor);
\* the argument is the DataFrame the previous call returned
AplicarFiltroSelect ==
    /\ pagina = "ingreso"
    /\ \E c \in LlamadasIngreso :
          /\ df_prev' = df_ret
          /\ df_arg' = FiltroArg(df_ret, c[1], c[2])
          /\ df_ret' = aplicar_filtro_select(df_ret, c[1], c[2])
          /\ llamada' = [fn |-> "aplicar_filtro_select", col |-> c[1],
                         valor |-> c[2]]
          /\ activos' = IF c[1] \in df_ret.cols /\ c[2] # Txt(Todos)
                        THEN activos \cup {c} ELSE activos
    /\ UNCHANGED <<pagina, df_base, df, tabla, varsJoin, varsRender, hoja>>

\* poblacion_st.py lines 219-251: one of the inline filters on df_temp
AplicarFiltroBdua ==
    /\ pagina = "bdua"
    /\ \E c \in LlamadasBdua :
          /\ df_prev' = df_ret
          /\ df_arg' = df_ret
          /\ df_ret' = FiltrarBdua(df_ret, c[1], c[2])
          /\ llamada' = [fn |-> "filtro_bdua", col |-> c[1], valor |-> c[2]]
          /\ activos' = IF c[2] # Txt(TODOS) THEN activos \cup {c} ELSE activos
    /\ UNCHANGED <<pagina, df_base, df, tabla, varsJoin, varsRender, hoja>>

NextFiltro ==
    \/ AplicarFiltroSelect
    \/ AplicarFiltroBdua

SpecFiltro == InitFiltro /\ [][NextFiltro]_vars

-----------------------------------------------------------------------------
(***************************************************************************)
(* Properties of the filters.                                              *)
(***************************************************************************)

\* the normalization the applicator's contract speaks of
Normalizado(c) == Strip(Upper(AsStr(c)))

\* the last call was aplicar_filtro_select on a present column with a value
\* other than the sentinel
FiltroActivo ==
    /\ llamada.fn = "aplicar_filtro_select"
    /\ llamada.col \in df_prev.cols
    /\ llamada.valor # Txt(Todos)

\* C8: after aplicar_filtro_select returns, the DataFrame it was given has the
\* rows and the cell values (values and types) it had before the call.
CexArgumentoIntacto ==
    llamada.fn = "aplicar_filtro_select" => df_arg = df_prev

\* C9: with the page's "All" sentinel ("Todos" for aplicar_filtro_select,
\* 'TODOS' for the BDUA filters), or with a column the dataset lacks, the
\* filter returns the dataset it was given: same columns, rows, values, order.
ThmPassthrough ==
    /\ /\ llamada.fn = "aplicar_filtro_select"
       /\ \/ llamada.col \notin df_prev.cols
          \/ llamada.valor = Txt(Todos)
       => df_ret = df_prev /\ df_arg = df_prev
    /\ llamada.fn = "filtro_bdua" /\ llamada.valor = Txt(TODOS)
       => df_ret = df_prev

\* C9 witness: the sentinel was applied to a present column of a dataset with
\* rows that a filter on a value would have normalized or removed
WitPassthrough ==
    /\ llamada.fn = "aplicar_filtro_select"
    /\ llamada.col = "MES"
    /\ llamada.valor = Txt(Todos)
    /\ Len(df_ret.rows) = 2
    /\ \E i \in Idx(df_ret.rows) : df_ret.rows[i].MES = Txt(ene_sp)

\* C10: for a present column and a non-sentinel value, the applicator returns
\* exactly the rows of its input, unaltered and in input order, whose column
\* value equals the selected value after upper-casing and trimming both.
CexSubconjuntoExacto ==
    FiltroActivo =>
        df_ret.rows =
            SelectSeq(df_prev.rows,
                      LAMBDA r : Normalizado(r[llamada.col])
                                 = Normalizado(llamada.valor))


-----------------------------------------------------------------------------
(***************************************************************************)
(* The territorial join: pages/ingreso_st.py lines 286-323 and             *)
(* pages/poblacion_st.py load_data.  The primary dataset has the columns   *)
(* DANE and MES, the geography reference DANE and MUNICIPIO.               *)
(***************************************************************************)

\* str.zfill(width)
zfill(s, width) ==
    LET pad == [ i \in 1..(width - Len(s)) |-> "0" ]
    IN  IF Len(s) >= width THEN s
        ELSE IF s # << >> /\ Head(s) \in {"-", "+"}
             THEN <<Head(s)>> \o pad \o Tail(s)
             ELSE pad \o s

\* lines 296-297: astype(str).str.zfill(5)
DaneStr(c) == zfill(AsStr(c), 5)

\* line 297: df_geo gains the column DANE_STR
GeoConDaneStr(g) ==
    [ cols |-> g.cols \cup {"DANE_STR"},
      rows |-> [ i \in 1..Len(g.rows) |->
                   [ DANE      |-> g.rows[i].DANE,
                     MUNICIPIO |-> g.rows[i].MUNICIPIO,
                     DANE_STR  |-> Txt(DaneStr(g.rows[i].DANE)) ] ] ]

\* line 312: df_geo[["DANE_STR"] + geo_cols_present].drop_duplicates(
\* subset=["DANE_STR"]): the first row of every key
RECURSIVE DropDuplicates(_, _)
DropDuplicates(rows, seen) ==
    IF rows = << >> THEN << >>
    ELSE IF Head(rows).DANE_STR \in seen
         THEN DropDuplicates(Tail(rows), seen)
         ELSE << [ DANE_STR  |-> Head(rows).DANE_STR,
                   MUNICIPIO |-> Head(rows).MUNICIPIO ] >>
              \o DropDuplicates(Tail(rows), seen \cup {Head(rows).DANE_STR})

\* line 314: df_poblacion.merge(df_geo_unique, how="left", on="DANE_STR"):
\* every left row in its order, once per matching right row, or once with a
\* null attribute when no right row matches
MergeLeft(left, right) ==
    Concat([ i \in 1..Len(left) |->
               LET k  == Txt(DaneStr(left[i].DANE))
                   ms == SelectSeq(right, LAMBDA r : r.DANE_STR = k)
               IN  IF ms = << >>
                   THEN << [ DANE |-> left[i].DANE, MES |-> left[i].MES,
                             MUNICIPIO |-> Nulo ] >>
                   ELSE [ j \in 1..Len(ms) |->
                            [ DANE |-> left[i].DANE, MES |-> left[i].MES,
                              MUNICIPIO |-> ms[j].MUNICIPIO ] ] ],
           Len(left))

\* lines 315-317: fillna("N/A") on the joined attribute columns
FillNaNA(rows) ==
    [ i \in 1..Len(rows) |->
        [ rows[i] EXCEPT !.MUNICIPIO = IF @ = Nulo THEN Txt(NA) ELSE @ ] ]

\* lines 311-321: the dataset df_poblacion is bound to after the merge
MergeIngreso(p, g) ==
    [ fn   |-> "merge_ingreso",
      aviso |-> FALSE,
      cols |-> p.cols \cup {"MUNICIPIO"},
      rows |-> FillNaNA(MergeLeft(p.rows,
                   DropDuplicates(GeoConDaneStr(g).rows, {}))) ]

\* line 313: df_poblacion.drop(columns=[c for c in geo_cols_present if c in
\* df_poblacion.columns]): the primary dataset without the columns that bear
\* the name of a reference attribute
SinColsGeo(p) ==
    [ cols |-> p.cols \ {"MUNICIPIO"},
      rows |-> [ i \in 1..Len(p.rows) |->
                   [ DANE |-> p.rows[i].DANE, MES |-> p.rows[i].MES ] ] ]

\* lines 311-321 when a statement of the try block raises: the except clause
\* warns and the finally clause drops DANE_STR from the dataset df_poblacion
\* is bound to at that point, which is the loaded one if line 312 raised and
\* the one of line 313 if line 314 raised
MergeFallido(p, linea) ==
    LET q == IF linea = 312 THEN p ELSE SinColsGeo(p)
    IN  [ fn |-> "merge_fallido", aviso |-> TRUE,
          cols |-> q.cols, rows |-> q.rows ]

\* poblacion_st.py lines 109-114: pd.merge(..., on='DANE', how='inner') on
\* the keys converted by astype(str) (lines 106-107)
MergeInner(left, right) ==
    Concat([ i \in 1..Len(left) |->
               LET k  == AsStr(left[i].DANE)
                   ms == SelectSeq(right, LAMBDA r : AsStr(r.DANE) = k)
               IN  [ j \in 1..Len(ms) |->
                       [ DANE |-> Txt(k), MES |-> left[i].MES,
                         MUNICIPIO |-> ms[j].MUNICIPIO ] ] ],
           Len(left))

\* poblacion_st.py lines 120-137: astype(str).str.upper() on the categorical
\* columns (a null becomes the text "NAN")
LimpiarCategoricas(rows) ==
    [ i \in 1..Len(rows) |->
        [ rows[i] EXCEPT !.MES = Txt(Upper(AsStr(@))),
                         !.MUNICIPIO = Txt(Upper(AsStr(@))) ] ]

\* poblacion_st.py lines 85-139: load_data
load_data(p, g) ==
    [ fn   |-> "load_data",
      aviso |-> FALSE,
      cols |-> p.cols \cup g.cols,
      rows |-> LimpiarCategoricas(MergeInner(p.rows, g.rows)) ]

D05001 == <<"0", "5", "0", "0", "1">>

D08001 == <<"0", "8", "0", "0", "1">>

D99999 == <<"9", "9", "9", "9", "9">>

MED == <<"M", "E", "D">>

BAQ == <<"B", "A", "Q">>

FilasPrimario ==
    { [DANE |-> d, MES |-> m] :
        d \in {Ent(5001), Txt(D05001), Txt(D99999)}, m \in {Txt(ENE), Txt(FEB)} }

FilasGeo ==
    { [DANE |-> d, MUNICIPIO |-> m] :
        d \in {Ent(5001), Txt(D08001)}, m \in {Txt(MED), Txt(BAQ), Nulo} }

\* a primary dataset of the ingreso workbook that already has a column
\* MUNICIPIO (the case line 313 provides for)
ConMunicipio(rows) ==
    [ cols |-> {"DANE", "MES", "MUNICIPIO"},
      rows |-> [ i \in 1..Len(rows) |->
                   [ DANE |-> rows[i].DANE, MES |-> rows[i].MES,
                     MUNICIPIO |-> Txt(BAQ) ] ] ]

\* the primary dataset is not empty (ingreso_st.py lines 234-236 stop the page
\* otherwise)
InitJoin ==
    /\ pagina \in {"ingreso", "bdua"}
    /\ \/ df_poblacion \in { [cols |-> {"DANE", "MES"}, rows |-> r] :
                               r \in SeqsUpTo(FilasPrimario, MaxRows) \ {<< >>} }
       \/ /\ pagina = "ingreso"
          /\ df_poblacion \in { ConMunicipio(r) :
                               r \in SeqsUpTo(FilasPrimario, MaxRows) \ {<< >>} }
    /\ df_geo \in { [cols |-> {"DANE", "MUNICIPIO"}, rows |-> r] :
                      r \in SeqsUpTo(FilasGeo, MaxRows) }
    /\ df_merged = [fn |-> "none", aviso |-> FALSE, cols |-> {}, rows |-> << >>]
    /\ SinAgg
    /\ SinFiltro
    /\ SinRender
    /\ hoja = SinHoja

\* ingreso_st.py lines 287-321: the geography reference was loaded
UnirGeoIngreso ==
    /\ pagina = "ingreso"
    /\ df_merged.fn = "none"
    /\ df_geo.rows # << >>
    /\ df_merged' = MergeIngreso(df_poblacion, df_geo)
    /\ df_geo' = GeoConDaneStr(df_geo)
    /\ UNCHANGED <<pagina, df_poblacion, df, tabla, varsFiltro, varsRender, hoja>>

\* ingreso_st.py lines 287-321 when line 312 or line 314 raises (the except
\* clause of line 318 catches every exception of the try block)
UnirGeoIngresoFalla ==
    /\ pagina = "ingreso"
    /\ df_merged.fn = "none"
    /\ df_geo.rows # << >>
    /\ \E linea \in {312, 314} :
          df_merged' = MergeFallido(df_poblacion, linea)
    /\ df_geo' = GeoConDaneStr(df_geo)
    /\ UNCHANGED <<pagina, df_poblacion, df, tabla, varsFiltro, varsRender, hoja>>

\* ingreso_st.py lines 322-323: the reference is empty, nothing is joined
SinGeoIngreso ==
    /\ pagina = "ingreso"
    /\ df_merged.fn = "none"
    /\ df_geo.rows = << >>
    /\ df_merged' = [fn |-> "sin_geo", aviso |-> FALSE,
                     cols |-> df_poblacion.cols, rows |-> df_poblacion.rows]
    /\ UNCHANGED <<pagina, df_poblacion, df_geo, df, tabla, varsFiltro, varsRender, hoja>>

\* poblacion_st.py lines 85-139
LoadDataBdua ==
    /\ pagina = "bdua"
    /\ df_merged.fn = "none"
    /\ df_merged' = load_data(df_poblacion, df_geo)
    /\ UNCHANGED <<pagina, df_poblacion, df_geo, df, tabla, varsFiltro, varsRender, hoja>>

NextJoin ==
    \/ UnirGeoIngreso
    \/ UnirGeoIngresoFalla
    \/ SinGeoIngreso
    \/ LoadDataBdua

SpecJoin == InitJoin /\ [][NextJoin]_vars

-----------------------------------------------------------------------------
(***************************************************************************)
(* Properties of the join.                                                 *)
(***************************************************************************)

\* the primary row's code has a match in the reference: some reference row
\* holds the same code, both written as 5-character zero-padded texts
TieneMatch(fila) ==
    \E i \in Idx(df_geo.rows) :
        DaneStr(df_geo.rows[i].DANE) = DaneStr(fila.DANE)

\* C7: after the territorial join every row of the primary dataset is in the
\* result, once and in its order, and a row whose code has no match in the
\* reference holds "N/A" in the joined attribute column.
CexJoinConservaFilas ==
    df_merged.fn \in {"merge_ingreso", "load_data"} =>
        /\ Len(df_merged.rows) = Len(df_poblacion.rows)
        /\ \A i \in Idx(df_merged.rows) :
              /\ AsStr(df_merged.rows[i].DANE) = AsStr(df_poblacion.rows[i].DANE)
              /\ df_merged.rows[i].MES = df_poblacion.rows[i].MES
              /\ ~ TieneMatch(df_poblacion.rows[i])
                    => df_merged.rows[i].MUNICIPIO = Txt(NA)

\* C17: when the territorial join of the ingreso page does not complete, the
\* primary dataset the page goes on with has the columns and the rows of the
\* loaded one (a column MUNICIPIO it already had included) and the warning
\* was raised.
CexJoinFallidoIntacto ==
    df_merged.fn = "merge_fallido" =>
        /\ df_merged.aviso
        /\ df_merged.cols = df_poblacion.cols
        /\ df_merged.rows = df_poblacion.rows

\* the join key as the page writes it: zero-padded to five characters on the
\* ingreso page (lines 296-297), the plain text on the BDUA page
\* (poblacion_st.py lines 106-107)
ClaveJoin(c) == IF pagina = "ingreso" THEN DaneStr(c) ELSE AsStr(c)

\* the reference rows that carry the key of a code, in the reference's order
ConClave(c) ==
    SelectSeq(df_geo.rows, LAMBDA g : ClaveJoin(g.DANE) = ClaveJoin(c))

\* the attribute as the page shows it: nulls filled with "N/A" on the ingreso
\* page (lines 315-317), the upper-cased text on the BDUA page
\* (poblacion_st.py lines 120-126)
AtributoMostrado(v) ==
    IF pagina = "ingreso"
    THEN (IF v = Nulo THEN Txt(NA) ELSE v)
    ELSE Txt(Upper(AsStr(v)))

\* the month column of the result: as loaded on the ingreso page, the
\* upper-cased text on the BDUA page (poblacion_st.py lines 120-126)
AtributoMes(v) == IF pagina = "ingreso" THEN v ELSE Txt(Upper(AsStr(v)))

\* C18: the join does not multiply rows: the result has no more rows than the
\* primary dataset, and every result row whose code is in the reference takes
\* its attribute from the first reference row carrying that key.
CexJoinNoMultiplica ==
    df_merged.fn \in {"merge_ingreso", "load_data"} =>
        /\ Len(df_merged.rows) <= Len(df_poblacion.rows)
        /\ \A i \in Idx(df_merged.rows) :
              ConClave(df_merged.rows[i].DANE) # << >> =>
                  df_merged.rows[i].MUNICIPIO =
                      AtributoMostrado(
                          Head(ConClave(df_merged.rows[i].DANE)).MUNICIPIO)

\* C19: the keys of both sides are matched as 5-character zero-padded texts:
\* a primary row whose code, so written, is the code of a reference row is in
\* the result with the attribute of such a reference row (5001 matches
\* "05001").
CexClavesRellenadas ==
    df_merged.fn \in {"merge_ingreso", "load_data"} =>
        \A i \in Idx(df_poblacion.rows) :
            TieneMatch(df_poblacion.rows[i]) =>
                \E j \in Idx(df_merged.rows), g \in Idx(df_geo.rows) :
                    /\ DaneStr(df_merged.rows[j].DANE)
                           = DaneStr(df_poblacion.rows[i].DANE)
                    /\ DaneStr(df_geo.rows[g].DANE)
                           = DaneStr(df_poblacion.rows[i].DANE)
                    /\ df_merged.rows[j].MES
                           = AtributoMes(df_poblacion.rows[i].MES)
                    /\ df_merged.rows[j].MUNICIPIO
                           = AtributoMostrado(df_geo.rows[g].MUNICIPIO)

\* C20: the join step leaves the loaded geography reference as it was: no
\* step changes its columns or its rows.
CexGeoSoloLectura == [][df_geo' = df_geo]_vars

\* C11: a call of aplicar_filtro_select that repeats the column and the value
\* of the call before it, on the dataset that call returned, returns that
\* dataset again.
ThmIdempotente ==
    [][ /\ llamada.fn = "aplicar_filtro_select"
        /\ llamada'.fn = "aplicar_filtro_select"
        /\ llamada'.col = llamada.col
        /\ llamada'.valor = llamada.valor
        => df_ret' = df_ret ]_vars

\* C11 witness: the year filter applied a second time to its own non-empty
\* result (the year column is a number until a first call rewrites it)
WitIdempotente ==
    /\ FiltroActivo
    /\ llamada.col = "ANO"
    /\ df_prev.rows # << >>
    /\ \A i \in Idx(df_prev.rows) : df_prev.rows[i].ANO = Txt(A2025)
    /\ df_ret = df_prev

\* the columns the active filters of the ingreso page have rewritten
ColsActivas == { c[1] : c \in activos }

\* a loaded row with the columns in cs normalized as line 446 leaves them
FilaNormalizada(r, cs) ==
    [ c \in DOMAIN r |-> IF c \in cs THEN Txt(Normalizado(r[c])) ELSE r[c] ]

\* C12: after any sequence of filter applications the dataset is made of
\* exactly the loaded rows, in their order, that satisfy every active filter
\* taken by itself (on the ingreso page with the filtered columns normalized);
\* it depends on the set of active filters only, not on their order.
ThmInterseccion ==
    /\ pagina = "ingreso" /\ llamada.fn # "none" =>
          LET sel == SelectSeq(df_base.rows,
                         LAMBDA r : \A c \in activos :
                             Normalizado(r[c[1]]) = Normalizado(c[2]))
          IN  df_ret.rows = [ i \in 1..Len(sel) |->
                                FilaNormalizada(sel[i], ColsActivas) ]
    /\ pagina = "bdua" /\ llamada.fn # "none" =>
          df_ret.rows = SelectSeq(df_base.rows,
                            LAMBDA r : \A c \in activos : r[c[1]] = c[2])

\* C12 witness: two filters on different columns are active, a loaded row
\* passes both and is returned, another passes one of them only and is not
WitInterseccion ==
    /\ pagina = "ingreso"
    /\ activos = { <<"ANO", Txt(A2025)>>, <<"MES", Txt(ene_sp)>> }
    /\ Len(df_ret.rows) = 1
    /\ \E i \in Idx(df_base.rows) :
          /\ df_base.rows[i].ANO = Ent(2025)
          /\ df_base.rows[i].MES = Txt(FEB)


-----------------------------------------------------------------------------
(***************************************************************************)
(* One render of a page: the selections of the user, the filtered view of  *)
(* the KPIs and tables, and the all-months (trend) view.  The datasets     *)
(* have the columns ANO, MES and SUBREGION (the source's "SUBREGIÓN").     *)
(***************************************************************************)
NORTE == <<"N", "O", "R", "T", "E">>

SUR == <<"S", "U", "R">>

\* str(float("nan")).upper(): what load_data leaves in a text column for an
\* empty cell (poblacion_st.py lines 120-126)
NAN == <<"N", "A", "N">>

ColsRender == {"ANO", "MES", "SUBREGION"}

\* the ingreso dataset has the amount columns too (lines 239-257)
ColsRenderIngreso == ColsRender \cup {"TOTAL_PRESUPUESTO", "TOTAL_EJECUTADO"}

FilaRenderIngreso(a, m, g, p) ==
    [ANO |-> a, MES |-> m, SUBREGION |-> g,
     TOTAL_PRESUPUESTO |-> p, TOTAL_EJECUTADO |-> 0]

FilasRenderIngreso ==
    { FilaRenderIngreso(a, m, g, 2) :
        a \in {Ent(2024), Ent(2025)}, m \in {Txt(ENE), Txt(ene_sp)},
        g \in {Txt(NORTE), Txt(SUR)} }

FilaRenderBdua(a, m, g) == [ANO |-> Txt(a), MES |-> Txt(m), SUBREGION |-> Txt(g)]

FilasRenderBdua ==
    { FilaRenderBdua(A2024, ABRIL, NORTE), FilaRenderBdua(A2024, ENERO, SUR),
      FilaRenderBdua(A2025, FEBRERO, NORTE), FilaRenderBdua(A2025, NAN, SUR) }

\* the sequences of at most n elements of S, none of them twice
SeqsSinRepetir(S, n) ==
    { q \in SeqsUpTo(S, n) : \A i, j \in 1..Len(q) : q[i] = q[j] => i = j }

Elem(q) == { q[i] : i \in 1..Len(q) }

\* Series.unique(): the distinct values in the order of their first row
RECURSIVE UniqueSeqDe(_, _, _)
UniqueSeqDe(rows, col, seen) ==
    IF rows = << >> THEN << >>
    ELSE IF Head(rows)[col] \in seen
         THEN UniqueSeqDe(Tail(rows), col, seen)
         ELSE << Head(rows)[col] >>
              \o UniqueSeqDe(Tail(rows), col, seen \cup {Head(rows)[col]})

UniqueSeq(rows, col) == UniqueSeqDe(rows, col, {})

\* a < b for two cells of one column: numbers by value, texts as Python
\* compares str
CeldaMenor(a, b) ==
    IF a.t = "int" /\ b.t = "int" THEN a.n < b.n
    ELSE StrLess(AsStr(a), AsStr(b))

\* sorted(S) for a set of cells
RECURSIVE SortCeldas(_)
SortCeldas(S) ==
    IF S = {} THEN << >>
    ELSE LET m == CHOOSE x \in S : \A y \in S : y = x \/ CeldaMenor(x, y)
         IN  <<m>> \o SortCeldas(S \ {m})

Reverse(q) == [ i \in 1..Len(q) |-> q[Len(q) + 1 - i] ]

\* ingreso_st.py lines 364-365: the years, ascending; the box has no "Todos"
OpcionesAnoIngreso(d) == SortCeldas(Unique(d.rows, "ANO") \ {Txt(NA), Nulo})

\* ingreso_st.py lines 368-369: "Todos" and the months in the order of the
\* sheet
OpcionesMesIngreso(d) ==
    <<Txt(Todos)>>
    \o SelectSeq(UniqueSeq(d.rows, "MES"), LAMBDA m : m \notin {Txt(NA), Nulo})

\* ingreso_st.py lines 384-390
get_select_options(d, col) ==
    IF col \notin d.cols THEN <<Txt(Todos)>>
    ELSE <<Txt(Todos)>> \o SortCeldas(Unique(d.rows, col) \ {Txt(NA), Nulo})

\* poblacion_st.py lines 207-208
OpcionesAnoBdua(df_temp) ==
    <<Txt(TODOS)>> \o Reverse(SortCeldas(Unique(df_temp.rows, "ANO")))

\* poblacion_st.py line 211: the option the year box is given as its index
DefectoAno(options_anos, filtro_ano) ==
    IF filtro_ano \in Elem(options_anos) THEN filtro_ano
    ELSE IF Txt(A2025) \in Elem(options_anos) THEN Txt(A2025)
    ELSE options_anos[1]

\* not the source: the months of the loaded rows, whatever the year selected
MesesCargados(df_temp) ==
    LET u == UniqueSeq(df_base.rows, "MES")
    IN  OrdenarNaUltimo(u, [ i \in 1..Len(u) |-> MONTH_ORDER(u[i].s) ])

\* poblacion_st.py line 222: sorted(unique(), key=MONTH_ORDER.get(x, 99))
MesesDisponibles(df_temp) ==
    LET u == UniqueSeq(df_temp.rows, "MES")
    IN  OrdenarNaUltimo(u, [ i \in 1..Len(u) |-> MONTH_ORDER(u[i].s) ])

\* not the source: the stored month replaced by the first available month
AjustarMesPrimero(filtro_mes, available_meses) ==
    IF filtro_mes \notin ({Txt(TODOS)} \cup Elem(available_meses))
       /\ available_meses # << >>
    THEN available_meses[1]
    ELSE IF available_meses = << >> THEN Txt(TODOS)
    ELSE filtro_mes

\* poblacion_st.py lines 226-229: st.session_state["filtro_mes"] after the
\* adjustment
AjustarMes(filtro_mes, available_meses) ==
    IF filtro_mes \notin ({Txt(TODOS)} \cup Elem(available_meses))
       /\ available_meses # << >>
    THEN available_meses[Len(available_meses)]
    ELSE IF available_meses = << >> THEN Txt(TODOS)
    ELSE filtro_mes

\* poblacion_st.py lines 285-286, 311-312: 'TODOS' and the sorted values
OpcionesGeoBdua(df_temp, col) ==
    <<Txt(TODOS)>> \o SortCeldas(Unique(df_temp.rows, col))

\* poblacion_st.py lines 232, 245, 287, 313: the stored value when it is
\* offered, else the first option
DefectoGuardado(options, guardado) ==
    IF guardado \in Elem(options) THEN guardado ELSE options[1]

\* the components sheet as cargar_datos returns it: empty when the sheet
\* could not be read (ingreso_st.py lines 208-211), or its rows
HojasComponentes ==
    { << >>,
      << FilaComponente(UPC, 0, 0) >>,
      << FilaComponente(UPC, 1, 1) >>,
      << FilaComponente(NA, 1, 0) >> }

\* ingreso_st.py lines 190-222: the outcomes of cargar_datos
CargasIngreso == {"ok", "error", "geo_error"}

\* poblacion_st.py lines 90-147: the outcomes of load_data (a workbook that
\* cannot be read raises inside the try)
CargasBdua == {"ok", "poblacion_error", "territorialidad_error"}

\* ingreso_st.py lines 498-499: data_kpis_empty, data_comp_empty
SinMontos(rows, presupuesto, ejecutado) ==
    \/ rows = << >>
    \/ Suma(rows, presupuesto) = 0 /\ Suma(rows, ejecutado) = 0

\* ingreso_st.py lines 681-696: the month chart has a bar
HayGrafico(trend) ==
    \E m \in Unique(trend, "MES") :
        SumaGrupo(trend, "MES", m, "TOTAL_PRESUPUESTO") > 0

\* ingreso_st.py lines 497-785: what each tab shows
SeccionesIngreso(kpis, trend, comp) ==
    LET data_kpis_empty ==
            SinMontos(kpis, "TOTAL_PRESUPUESTO", "TOTAL_EJECUTADO")
        data_comp_empty == SinMontos(comp, "PRESUPUESTO", "EJECUTADO")
    IN  IF data_kpis_empty /\ data_comp_empty
        THEN [ kpis |-> "sin_datos", detalle |-> "nada", graficos |-> "nada",
               componentes |-> "sin_datos" ]
        ELSE [ kpis     |-> IF data_kpis_empty THEN "sin_datos" ELSE "datos",
               detalle  |-> IF data_kpis_empty THEN "sin_datos" ELSE "datos",
               graficos |-> IF ~ data_kpis_empty /\ HayGrafico(trend)
                            THEN "datos" ELSE "sin_datos",
               componentes |->
                   IF ~ data_comp_empty
                      /\ create_componente_table(
                             [cols |-> ColsComponentes, rows |-> comp]).ok
                   THEN "datos" ELSE "sin_datos" ]

\* ingreso_st.py lines 323, 353, 508-510: the notices of a render
AvisosIngreso(estado, kpis, comp) ==
    (IF estado = "geo_error" THEN {"info_geo"} ELSE {})
    \cup (IF comp = << >> THEN {"info_componentes"} ELSE {})
    \cup (IF /\ SinMontos(kpis, "TOTAL_PRESUPUESTO", "TOTAL_EJECUTADO")
             /\ ~ SinMontos(comp, "PRESUPUESTO", "EJECUTADO")
          THEN {"warning_kpis"} ELSE {})

\* poblacion_st.py lines 378-380, 538-818: what each tab shows
SeccionesBdua(df_filtered, trend) ==
    IF df_filtered = << >>
    THEN SinSecciones
    ELSE [ kpis |-> "datos", detalle |-> "datos",
           graficos |-> IF trend = << >> THEN "sin_datos" ELSE "datos",
           componentes |-> "nada" ]

\* ingreso_st.py lines 363-377, 381-387: the values a select box offers, "N/A"
\* left out
Opciones(rows, col) == Unique(rows, col) \ {Txt(NA)}

\* ingreso_st.py lines 430-490: df_filtrado_kpis
IngresoKpis(d, selected_ano, selected_mes, sel_subregion) ==
    LET selected_ano_str == Txt(AsStr(selected_ano))
        df_filtrado_full == aplicar_filtro_select(d, "ANO", selected_ano_str)
        df_filtrado == aplicar_filtro_select(df_filtrado_full, "MES", selected_mes)
    IN  aplicar_filtro_select(df_filtrado, "SUBREGION", sel_subregion)

\* ingreso_st.py lines 432-487: df_filtrado_for_trend
IngresoTrend(d, selected_ano, sel_subregion) ==
    LET selected_ano_str == Txt(AsStr(selected_ano))
        df_filtrado_for_trend ==
            aplicar_filtro_select(d, "ANO", selected_ano_str)
    IN  aplicar_filtro_select(df_filtrado_for_trend, "SUBREGION", sel_subregion)

\* poblacion_st.py lines 355-374: df_chart_data_all_months, filtered by the
\* keys of st.session_state
BduaTrend(d, state) ==
    LET por_ano == IF state.filtro_ano # Txt(TODOS)
                   THEN SelectSeq(d.rows, LAMBDA r : r.ANO = state.filtro_ano)
                   ELSE d.rows
    IN  IF state.filtro_subregion # Txt(TODOS) /\ "SUBREGION" \in d.cols
        THEN SelectSeq(por_ano, LAMBDA r : r.SUBREGION = state.filtro_subregion)
        ELSE por_ano

\* ingreso_st.py lines 286-785: one run of the page on the loaded dataset
\* with the values the select boxes hold; without the geography reference the
\* dataset has no geography column
VistaIngreso(selected_ano, selected_mes, sel_subregion, evento) ==
    LET d == IF carga.estado = "geo_error"
             THEN [ df_base EXCEPT !.cols = @ \ {"SUBREGION"} ]
             ELSE df_base
        anos  == OpcionesAnoIngreso(d)
        kpis  == IngresoKpis(d, selected_ano, selected_mes, sel_subregion).rows
        trend == IngresoTrend(d, selected_ano, sel_subregion).rows
    IN  [ fn |-> "mostrar_ingreso", evento |-> evento,
          ano |-> selected_ano, mes |-> selected_mes,
          subregion |-> sel_subregion,
          kpis |-> kpis, trend |-> trend,
          abortada |-> FALSE,
          avisos |-> AvisosIngreso(carga.estado, kpis, carga.comp),
          secciones |-> SeccionesIngreso(kpis, trend, carga.comp),
          opciones |-> [ ano |-> anos, mes |-> OpcionesMesIngreso(d),
                         subregion |-> get_select_options(d, "SUBREGION") ],
          defecto |-> [ ano |-> anos[Len(anos)], mes |-> Txt(Todos),
                        subregion |-> Txt(Todos) ],
          mes_previo |-> Nulo, mes_ajustado |-> Nulo ]

\* poblacion_st.py lines 186-818: one run of the page from the stored keys
\* `state` with the values the select boxes hold; vista.session is
\* st.session_state at the end of the run (lines 218, 239 and 319)
VistaBdua(state, selected_ano, selected_mes, selected_subregion, evento) ==
    LET options_anos == OpcionesAnoBdua(df_base)
        t1 == FiltrarBdua(df_base, "ANO", selected_ano)
        available_meses == MesesDisponibles(t1)
        options_meses == <<Txt(TODOS)>> \o available_meses
        filtro_mes == AjustarMes(state.filtro_mes, available_meses)
        t2 == FiltrarBdua(t1, "MES", selected_mes)
        options_subregiones == OpcionesGeoBdua(t2, "SUBREGION")
        df_filtered == FiltrarBdua(t2, "SUBREGION", selected_subregion)
        final == [ filtro_ano |-> selected_ano,
                   filtro_mes |-> selected_mes,
                   filtro_subregion |-> Txt(TODOS) ]
        trend == BduaTrend(df_base, final)
    IN  [ session |-> final,
          render |->
            [ fn |-> "poblacion_st", evento |-> evento,
              ano |-> selected_ano, mes |-> selected_mes,
              subregion |-> selected_subregion,
              kpis |-> df_filtered.rows, trend |-> trend,
              abortada |-> FALSE,
              avisos |-> IF df_filtered.rows = << >>
                         THEN {"warning_sin_datos"} ELSE {},
              secciones |-> SeccionesBdua(df_filtered.rows, trend),
              opciones |-> [ ano |-> options_anos, mes |-> options_meses,
                             subregion |-> options_subregiones ],
              defecto |->
                [ ano |-> DefectoAno(options_anos, state.filtro_ano),
                  mes |-> DefectoGuardado(options_meses, filtro_mes),
                  subregion |-> DefectoGuardado(options_subregiones,
                                                state.filtro_subregion) ],
              mes_previo |-> state.filtro_mes,
              mes_ajustado |-> filtro_mes ] ]

\* the datasets of the two pages: the ingreso page stops on an empty main
\* sheet (ingreso_st.py lines 235-237), the BDUA page does not
DatosRender(p) ==
    IF p = "ingreso"
    THEN { [cols |-> ColsRenderIngreso, rows |-> r] :
             r \in SeqsUpTo(FilasRenderIngreso, MaxRows) \ {<< >>} }
    ELSE { [cols |-> ColsRender, rows |-> r] :
             r \in SeqsSinRepetir(FilasRenderBdua, MaxFilasRender) }

InitRender ==
    /\ pagina \in {"ingreso", "bdua"}
    /\ df_base \in DatosRender(pagina)
    /\ df_arg = [cols |-> {}, rows |-> << >>]
    /\ df_prev = [cols |-> {}, rows |-> << >>]
    /\ df_ret = [cols |-> {}, rows |-> << >>]
    /\ llamada = [fn |-> "none", col |-> "", valor |-> Nulo]
    /\ activos = {}
    /\ SinAgg
    /\ SinJoin
    /\ SinRender
    /\ hoja = SinHoja

\* ingreso_st.py lines 190-237: the main sheet cannot be read, the page
\* shows the error and stops
RenderIngresoError ==
    /\ pagina = "ingreso"
    /\ carga.estado = "error"
    /\ render' = [ SinRenderVista EXCEPT !.fn = "mostrar_ingreso",
                                         !.evento = "seleccion",
                                         !.abortada = TRUE,
                                         !.avisos = {"error"} ]
    /\ UNCHANGED <<pagina, df, tabla, varsFiltro, varsJoin, session_state,
                   carga, sgsss, hoja>>

\* ingreso_st.py lines 190-785: a render after the user chose in the select
\* boxes; every box returns one of the options it offers
RenderIngreso ==
    /\ pagina = "ingreso"
    /\ carga.estado # "error"
    /\ LET d == IF carga.estado = "geo_error"
                THEN [ df_base EXCEPT !.cols = @ \ {"SUBREGION"} ]
                ELSE df_base
       IN  \E selected_ano \in Elem(OpcionesAnoIngreso(d)),
              selected_mes \in Elem(OpcionesMesIngreso(d)),
              sel_subregion \in Elem(get_select_options(d, "SUBREGION")) :
              render' = VistaIngreso(selected_ano, selected_mes, sel_subregion,
                                     "seleccion")
    /\ UNCHANGED <<pagina, df, tabla, varsFiltro, varsJoin, session_state,
                   carga, sgsss, hoja>>

\* ingreso_st.py lines 378-380: "Restablecer filtros" only reruns the script;
\* the select boxes are given the options and the index of the run before, and
\* a Streamlit widget whose arguments did not change keeps the value it holds
RestablecerIngreso ==
    /\ pagina = "ingreso"
    /\ render.fn = "mostrar_ingreso"
    /\ ~ render.abortada
    /\ render' = VistaIngreso(render.ano, render.mes, render.subregion, "reset")
    /\ UNCHANGED <<pagina, df, tabla, varsFiltro, varsJoin, session_state,
                   carga, sgsss, hoja>>

\* poblacion_st.py lines 90-147, 181-184: a workbook cannot be read, load_data
\* shows the error and returns None, the page returns
RenderBduaError ==
    /\ pagina = "bdua"
    /\ carga.estado # "ok"
    /\ render' = [ SinRenderVista EXCEPT !.fn = "poblacion_st",
                                         !.evento = "seleccion",
                                         !.abortada = TRUE,
                                         !.avisos = {"error"} ]
    /\ UNCHANGED <<pagina, df, tabla, varsFiltro, varsJoin, session_state,
                   carga, sgsss, hoja>>

\* poblacion_st.py lines 186-818: a render after the user chose in the select
\* boxes; every box offers 'TODOS' and the values left in df_temp by the
\* filters before it, and returns one of the options it offers
RenderBdua ==
    /\ pagina = "bdua"
    /\ carga.estado = "ok"
    /\ \E selected_ano \in Elem(OpcionesAnoBdua(df_base)) :
       LET t1 == FiltrarBdua(df_base, "ANO", selected_ano)
       IN  \E selected_mes \in {Txt(TODOS)} \cup Elem(MesesDisponibles(t1)) :
           LET t2 == FiltrarBdua(t1, "MES", selected_mes)
           IN  \E selected_subregion \in
                     Elem(OpcionesGeoBdua(t2, "SUBREGION")) :
               LET vista == VistaBdua(session_state, selected_ano, selected_mes,
                                      selected_subregion, "seleccion")
               IN  /\ session_state' = vista.session
                   /\ render' = vista.render
    /\ UNCHANGED <<pagina, df, tabla, varsFiltro, varsJoin, carga, sgsss, hoja>>

\* poblacion_st.py lines 254-276: "Restablecer filtros" stores the defaults
\* and reruns the script.  In the rerun the year box and the month box are
\* given another index and show the option at that index; the sub-region box
\* is given the index 0 it had in every run (line 319), so it keeps the value
\* it holds when its options did not change, and shows 'TODOS' otherwise.
RestablecerBdua ==
    /\ pagina = "bdua"
    /\ render.fn = "poblacion_st"
    /\ ~ render.abortada
    /\ LET options_anos == OpcionesAnoBdua(df_base)
           selected_ano == DefectoAno(options_anos, SessionInicial.filtro_ano)
           t1 == FiltrarBdua(df_base, "ANO", selected_ano)
           selected_mes ==
               DefectoGuardado(<<Txt(TODOS)>> \o MesesDisponibles(t1),
                   AjustarMes(SessionInicial.filtro_mes, MesesDisponibles(t1)))
           t2 == FiltrarBdua(t1, "MES", selected_mes)
           options_subregiones == OpcionesGeoBdua(t2, "SUBREGION")
           selected_subregion ==
               IF options_subregiones = render.opciones.subregion
               THEN render.subregion
               ELSE options_subregiones[1]
           vista == VistaBdua(SessionInicial, selected_ano, selected_mes,
                              selected_subregion, "reset")
       IN  /\ session_state' = vista.session
           /\ render' = vista.render
    /\ UNCHANGED <<pagina, df, tabla, varsFiltro, varsJoin, carga, sgsss, hoja>>

NextRender ==
    \/ RenderIngreso
    \/ RestablecerIngreso
    \/ RenderBdua
    \/ RestablecerBdua

SpecRender == InitRender /\ [][NextRender]_vars

\* the sheets of the ingreso workbook for the page as a whole: one year, the
\* months ENE and FEB, with and without budget
FilasPaginaIngreso ==
    { FilaRenderIngreso(Ent(2025), Txt(m), Txt(NORTE), p) :
        m \in {ENE, FEB}, p \in {0, 2} }

InitPagina ==
    /\ pagina \in {"ingreso", "bdua"}
    /\ \/ /\ pagina = "ingreso"
          /\ df_base \in { [cols |-> ColsRenderIngreso, rows |-> r] :
                            r \in SeqsUpTo(FilasPaginaIngreso, MaxRows)
                                     \ {<< >>} }
          /\ carga \in [estado : CargasIngreso, comp : HojasComponentes]
       \/ /\ pagina = "bdua"
          /\ df_base \in DatosRender("bdua")
          /\ carga \in [estado : CargasBdua, comp : {<< >>}]
    /\ session_state = SessionInicial
    /\ render = SinRenderVista
    /\ sgsss = SinSgsss
    /\ df_arg = [cols |-> {}, rows |-> << >>]
    /\ df_prev = [cols |-> {}, rows |-> << >>]
    /\ df_ret = [cols |-> {}, rows |-> << >>]
    /\ llamada = [fn |-> "none", col |-> "", valor |-> Nulo]
    /\ activos = {}
    /\ SinAgg
    /\ SinJoin
    /\ hoja = SinHoja

NextPagina ==
    \/ RenderIngreso
    \/ RenderIngresoError
    \/ RenderBdua
    \/ RenderBduaError

SpecPagina == InitPagina /\ [][NextPagina]_vars

-----------------------------------------------------------------------------
(***************************************************************************)
(* Properties of the views.                                                *)
(***************************************************************************)

\* C13: the trend view of a render holds exactly the loaded rows that satisfy
\* the selected year and the selected geography filter, whatever month is
\* selected (on the ingreso page with the filtered columns normalized).
CexTrendSoloIgnoraMes ==
    /\ render.fn = "mostrar_ingreso" =>
          LET sel == SelectSeq(df_base.rows,
                       LAMBDA r :
                         /\ Normalizado(r.ANO) = Normalizado(render.ano)
                         /\ \/ render.subregion = Txt(Todos)
                            \/ Normalizado(r.SUBREGION)
                                 = Normalizado(render.subregion))
              cs == {"ANO"} \cup (IF render.subregion = Txt(Todos) THEN {}
                                  ELSE {"SUBREGION"})
          IN  render.trend = [ i \in 1..Len(sel) |-> FilaNormalizada(sel[i], cs) ]
    /\ render.fn = "poblacion_st" =>
          render.trend =
              SelectSeq(df_base.rows,
                  LAMBDA r :
                    /\ render.ano = Txt(TODOS) \/ r.ANO = render.ano
                    /\ render.subregion = Txt(TODOS)
                          \/ r.SUBREGION = render.subregion)


-----------------------------------------------------------------------------
(***************************************************************************)
(* pages/ingreso_st.py: normalize_columns.  A sheet is the sequence of its *)
(* column labels (cells: a header may be a text or a number); the data of  *)
(* the sheet is copied by df.copy() and not touched.                       *)
(***************************************************************************)
MES_ == <<"M", "E", "S">>

ALIAS == <<"%", "_", "E", "J", "E", "C", "U", "C", "I", "O", "N">>

PORCENTAJE_EJECUCION ==
    <<"P", "O", "R", "C", "E", "N", "T", "A", "J", "E", "_",
      "E", "J", "E", "C", "U", "C", "I", "O", "N">>

\* str.replace(" ", "_")
ReplaceEspacios(s) == [ i \in 1..Len(s) |-> IF s[i] = " " THEN "_" ELSE s[i] ]

\* line 17: columns.astype(str).str.strip().str.upper().str.replace(" ", "_")
NormalizarNombre(c) == Txt(ReplaceEspacios(Upper(Strip(AsStr(c)))))

\* lines 20-21: rename(columns={"%_EJECUCION": "PORCENTAJE_EJECUCION"})
CorregirAlias(columns) ==
    IF \E i \in 1..Len(columns) : columns[i] = Txt(ALIAS)
    THEN [ i \in 1..Len(columns) |->
             IF columns[i] = Txt(ALIAS) THEN Txt(PORCENTAJE_EJECUCION)
             ELSE columns[i] ]
    ELSE columns

\* not the source: the alias corrected before the labels are normalized
NormalizeAliasPrimero(columns) ==
    LET c == CorregirAlias(columns)
    IN  [ i \in 1..Len(c) |-> NormalizarNombre(c[i]) ]

\* lines 13-22: the labels of the DataFrame normalize_columns returns
normalize_columns(columns) ==
    CorregirAlias([ i \in 1..Len(columns) |-> NormalizarNombre(columns[i]) ])

\* the labels a sheet may carry
Etiquetas ==
    { Txt(<<" ", "m", "e", "s">>), Txt(<<"M", "e", "s", " ">>), Txt(MES_),
      Txt(<<"%", " ", "e", "j", "e", "c", "u", "c", "i", "o", "n">>),
      Txt(ALIAS), Txt(PORCENTAJE_EJECUCION),
      Txt(<<"t", "o", "t", "a", "l", " ", " ", "p">>), Ent(2025) }

InitNorm ==
    /\ \E cs \in SeqsUpTo(Etiquetas, MaxCols) :
          hoja = [original |-> cs, antes |-> cs, columns |-> cs, veces |-> 0]
    /\ pagina = "ingreso"
    /\ SinAgg
    /\ SinFiltro
    /\ SinJoin
    /\ SinRender

\* lines 197, 205, 213 call normalize_columns on a sheet just read; the
\* function is applied again to its own result
NormalizarColumnas ==
    /\ hoja.veces < MaxPasadas
    /\ hoja' = [ hoja EXCEPT !.antes = hoja.columns,
                             !.columns = normalize_columns(hoja.columns),
                             !.veces = @ + 1 ]
    /\ UNCHANGED <<pagina, df, tabla, varsFiltro, varsJoin, varsRender>>

NextNorm == NormalizarColumnas

SpecNorm == InitNorm /\ [][NextNorm]_vars

\* C14: a second pass of normalize_columns leaves the labels of the first pass
\* as they are.
ThmNormalizeIdempotente ==
    hoja.veces >= 2 => hoja.columns = hoja.antes

\* C14 witness: a sheet with a padded lower-case label and the alias written
\* with a space, normalized twice
WitNormalizeIdempotente ==
    /\ hoja.veces = 2
    /\ hoja.original =
          << Txt(<<" ", "m", "e", "s">>),
             Txt(<<"%", " ", "e", "j", "e", "c", "u", "c", "i", "o", "n">>) >>
    /\ hoja.columns = << Txt(MES_), Txt(PORCENTAJE_EJECUCION) >>

(***************************************************************************)
(* Properties of a page as a whole.                                        *)
(***************************************************************************)

\* a secondary dataset of the render could not be loaded: the geography
\* reference of either page, or the components sheet of the ingreso page
\* (which cargar_datos then returns empty)
FalloSecundario ==
    \/ carga.estado \in {"geo_error", "territorialidad_error"}
    \/ pagina = "ingreso" /\ carga.estado = "ok" /\ carga.comp = << >>

\* C21: a render whose secondary dataset could not be loaded is not aborted:
\* it shows a notice that does not stop the page and renders from the primary
\* dataset.
CexCargaSecundaria ==
    (render.fn # "none" /\ FalloSecundario) =>
        /\ ~ render.abortada
        /\ render.avisos \cap {"info_geo", "info_componentes"} # {}
        /\ render.opciones.ano # << >>

\* C22: every section that has data for the selection is rendered in the
\* render pass, whatever the other sections hold: the indicators and the
\* detail when the filtered rows carry an amount, the month chart when a month
\* of the selected year and geography has a budget, the components tab when
\* the components sheet carries an amount; on the BDUA page every tab when the
\* filtered rows are not empty.
CexSeccionesIndependientes ==
    /\ (render.fn = "mostrar_ingreso" /\ ~ render.abortada) =>
          /\ ~ SinMontos(render.kpis, "TOTAL_PRESUPUESTO", "TOTAL_EJECUTADO")
                => /\ render.secciones.kpis = "datos"
                   /\ render.secciones.detalle = "datos"
          /\ HayGrafico(render.trend) => render.secciones.graficos = "datos"
          /\ ( /\ ~ SinMontos(carga.comp, "PRESUPUESTO", "EJECUTADO")
               /\ create_componente_table(
                      [cols |-> ColsComponentes, rows |-> carga.comp]).ok )
                => render.secciones.componentes = "datos"
    /\ (render.fn = "poblacion_st" /\ ~ render.abortada) =>
          /\ render.kpis # << >> => /\ render.secciones.kpis = "datos"
                                    /\ render.secciones.detalle = "datos"
          /\ render.trend # << >> => render.secciones.graficos = "datos"

(***************************************************************************)
(* The backfill of the main sheet, ingreso_st.py lines 239-257.  Column    *)
(* labels are strings here, because the step tests them for keywords.      *)
(***************************************************************************)
L_ANO == <<"A", "N", "O">>

L_REGIMEN == <<"R", "E", "G", "I", "M", "E", "N">>

L_DANE == <<"D", "A", "N", "E">>

PRESUPUESTO == <<"P", "R", "E", "S", "U", "P", "U", "E", "S", "T", "O">>

EJECUTADO == <<"E", "J", "E", "C", "U", "T", "A", "D", "O">>

L_UPC_LMA == <<"_", "U", "P", "C", "_", "L", "M", "A">>

L_PYP == <<"_", "P", "Y", "P">>

L_PROVISION == <<"_", "P", "R", "O", "V", "I", "S", "I", "O", "N">>

\* a column of the sheet that the page does not expect, an amount by its
\* label
L_SUBTOTAL == <<"S", "U", "B">> \o TOTAL

\* lines 239-245
expected_cols ==
    << L_ANO, MES_, L_REGIMEN, L_DANE,
       TOTAL \o <<"_">> \o PRESUPUESTO, TOTAL \o <<"_">> \o EJECUTADO,
       PRESUPUESTO \o L_UPC_LMA, EJECUTADO \o L_UPC_LMA,
       PRESUPUESTO \o L_PYP, EJECUTADO \o L_PYP,
       PRESUPUESTO \o L_PROVISION, EJECUTADO \o L_PROVISION >>

\* k in s, for two Python strings
Contiene(s, k) ==
    \E i \in 1..(Len(s) + 1) :
        /\ i + Len(k) - 1 <= Len(s)
        /\ \A j \in 1..Len(k) : s[i + j - 1] = k[j]

\* not the source: only the keyword TOTAL marks an amount column
EsMontoSoloTotal(col) == Contiene(col, TOTAL)

\* lines 249, 254: any(k in col for k in ["TOTAL", "PRESUPUESTO", "EJECUTADO"])
EsMonto(col) == \E k \in {TOTAL, PRESUPUESTO, EJECUTADO} : Contiene(col, k)

EsDigito(c) == c \in {"0", "1", "2", "3", "4", "5", "6", "7", "8", "9"}

ValorDigito(c) == CHOOSE n \in 0..9 : Digits(n) = <<c>>

\* int(s) for a string of decimal digits
RECURSIVE ValorDigitos(_)
ValorDigitos(s) ==
    IF s = << >> THEN 0
    ELSE 10 * ValorDigitos(SubSeq(s, 1, Len(s) - 1)) + ValorDigito(s[Len(s)])

\* line 257: pd.to_numeric(errors="coerce").fillna(0) on one cell: a number
\* stays, a text of digits (spaces around it allowed) is parsed, any other
\* text and a null cell become 0
to_numeric_fillna(c) ==
    IF c.t = "int" THEN c
    ELSE IF /\ c.t = "str"
            /\ Strip(c.s) # << >>
            /\ \A i \in 1..Len(Strip(c.s)) : EsDigito(Strip(c.s)[i])
         THEN Ent(ValorDigitos(Strip(c.s)))
         ELSE Ent(0)

\* lines 247-257 on one row of a sheet with the columns cols
BackfillFila(r, cols) ==
    LET todas == cols \cup Elem(expected_cols)
        creada == [ c \in todas |->
                      IF c \in cols THEN r[c]
                      ELSE IF EsMonto(c) THEN Ent(0) ELSE Txt(NA) ]
    IN  [ c \in todas |->
            IF EsMonto(c) THEN to_numeric_fillna(creada[c]) ELSE creada[c] ]

Backfill(d) ==
    [ cols |-> d.cols \cup Elem(expected_cols),
      rows |-> [ i \in 1..Len(d.rows) |-> BackfillFila(d.rows[i], d.cols) ] ]

\* the columns a sheet may hold, and the cells of each
ColsHoja == {L_ANO, TOTAL \o <<"_">> \o PRESUPUESTO, EJECUTADO \o L_PYP,
             L_SUBTOTAL}

CeldasHoja(c) ==
    IF c = L_ANO THEN {Txt(XX), Nulo}
    ELSE {Ent(3), Txt(<<"7">>), Txt(XX), Nulo}

MaxFilasHoja == 1

InitBackfill ==
    /\ pagina = "ingreso"
    /\ \E cols \in SUBSET ColsHoja :
       \E rows \in SeqsUpTo({ r \in [cols -> {Ent(3), Txt(<<"7">>), Txt(XX), Nulo}] :
                               \A c \in cols : r[c] \in CeldasHoja(c) },
                            MaxFilasHoja) \ {<< >>} :
          df_prev = [cols |-> cols, rows |-> rows]
    /\ df_arg = [cols |-> {}, rows |-> << >>]
    /\ df_ret = [cols |-> {}, rows |-> << >>]
    /\ llamada = [fn |-> "none", col |-> "", valor |-> Nulo]
    /\ df_base = [cols |-> {}, rows |-> << >>]
    /\ activos = {}
    /\ SinAgg
    /\ SinJoin
    /\ SinRender
    /\ hoja = SinHoja

\* lines 239-257: the page backfills the main sheet it loaded
BackfillPrincipal ==
    /\ llamada.fn = "none"
    /\ df_ret' = Backfill(df_prev)
    /\ llamada' = [fn |-> "backfill", col |-> "", valor |-> Nulo]
    /\ UNCHANGED <<pagina, df, tabla, df_arg, df_prev, df_base, activos,
                   varsJoin, varsRender, hoja>>

NextBackfill == BackfillPrincipal

SpecBackfill == InitBackfill /\ [][NextBackfill]_vars

\* C23: after the backfill every expected column exists; an expected column
\* the sheet lacked holds 0 when its label contains TOTAL, PRESUPUESTO or
\* EJECUTADO and "N/A" otherwise; every column with such a label holds
\* numbers only, the number the sheet held (as a number or as digits) and 0 for
\* any other text and for a null cell; every other column is as loaded.
ThmBackfill ==
    llamada.fn = "backfill" =>
        /\ Elem(expected_cols) \subseteq df_ret.cols
        /\ Len(df_ret.rows) = Len(df_prev.rows)
        /\ \A i \in 1..Len(df_ret.rows) : \A c \in df_ret.cols :
              LET monto == \/ Contiene(c, TOTAL)
                           \/ Contiene(c, PRESUPUESTO)
                           \/ Contiene(c, EJECUTADO)
                  nuevo == df_ret.rows[i][c]
              IN  /\ c \notin df_prev.cols =>
                        nuevo = (IF monto THEN Ent(0) ELSE Txt(NA))
                  /\ monto => nuevo.t = "int"
                  /\ (c \in df_prev.cols /\ monto) =>
                        LET viejo == df_prev.rows[i][c]
                        IN  nuevo = (IF viejo = Ent(3) THEN Ent(3)
                                     ELSE IF viejo = Txt(<<"7">>) THEN Ent(7)
                                     ELSE Ent(0))
                  /\ (c \in df_prev.cols /\ ~ monto) =>
                        nuevo = df_prev.rows[i][c]

\* C23 witness: a sheet without ANO and without TOTAL_PRESUPUESTO, with the
\* text "XX" in EJECUTADO_PYP and the digits "7" in SUBTOTAL, after the backfill
WitBackfill ==
    /\ llamada.fn = "backfill"
    /\ df_prev.cols = {EJECUTADO \o L_PYP, L_SUBTOTAL}
    /\ df_prev.rows[1][EJECUTADO \o L_PYP] = Txt(XX)
    /\ df_prev.rows[1][L_SUBTOTAL] = Txt(<<"7">>)
    /\ df_ret.rows[1][L_ANO] = Txt(NA)
    /\ df_ret.rows[1][TOTAL \o <<"_">> \o PRESUPUESTO] = Ent(0)
    /\ df_ret.rows[1][EJECUTADO \o L_PYP] = Ent(0)
    /\ df_ret.rows[1][L_SUBTOTAL] = Ent(7)

(***************************************************************************)
(* Properties of the filters of a render.                                  *)
(***************************************************************************)
ColDeFiltro(f) ==
    IF f = "ano" THEN "ANO" ELSE IF f = "mes" THEN "MES" ELSE "SUBREGION"

\* C24: every select box of a render offers the "All" sentinel first,
\* followed by distinct values of the loaded column other than "N/A" and null,
\* the years and the geography values in ascending order; the sentinel is the
\* default of the box (on the BDUA page, where the index of a box follows the
\* stored keys, in the render with the keys at their initial values).
CexOpcionesFiltro ==
    (render.fn # "none" /\ ~ render.abortada) =>
        \A f \in {"ano", "mes", "subregion"} :
            LET o == render.opciones[f]
            IN  /\ o # << >>
                /\ o[1] \in {Txt(Todos), Txt(TODOS)}
                /\ (render.fn = "mostrar_ingreso" \/ render.evento = "reset") =>
                       render.defecto[f] = o[1]
                /\ \A i, j \in 2..Len(o) : o[i] = o[j] => i = j
                /\ \A i \in 2..Len(o) :
                       /\ o[i] \notin {Txt(NA), Nulo, Txt(Todos), Txt(TODOS)}
                       /\ \E k \in 1..Len(df_base.rows) :
                              df_base.rows[k][ColDeFiltro(f)] = o[i]
                /\ f # "mes" =>
                       \A i, j \in 2..Len(o) : i < j => CeldaMenor(o[i], o[j])

\* C25: at the end of a render of the BDUA page the stored key of every filter
\* holds the value selected for that filter in the render.
CexSeleccionGuardada ==
    (render.fn = "poblacion_st" /\ ~ render.abortada) =>
        /\ session_state.filtro_ano = render.ano
        /\ session_state.filtro_mes = render.mes
        /\ session_state.filtro_subregion = render.subregion

\* C26: in the render that follows a click on "Restablecer filtros" the year
\* is the default year of the page and the month and the geography filter are
\* the "All" sentinel.
CexRestablecer ==
    render.evento = "reset" =>
        /\ render.ano = render.defecto.ano
        /\ render.mes \in {Txt(Todos), Txt(TODOS)}
        /\ render.subregion \in {Txt(Todos), Txt(TODOS)}

(***************************************************************************)
(* pages/poblacion_sgsss_st.py: the period filter, the ranking of tab 1    *)
(* and the evolution of tab 2.  ENTIDAD is a string, PERIODO and DEPTO are  *)
(* cells, the three counts are numbers.                                    *)
(***************************************************************************)

\* line 60, "ACUMULADO (Todos los Períodos)", by its first word
ACUMULADO == <<"A", "C", "U", "M", "U", "L", "A", "D", "O">>

\* lines 129, 136
OTRAS_EPS == <<"O", "T", "R", "A", "S", " ", "E", "P", "S">>

ANT == <<"A", "N", "T">>

\* line 126: head(10)
TopN == 10

\* the name of the k-th entity of a sheet: E01, E02, ...
Entidad(k) == <<"E">> \o (IF k < 10 THEN <<"0">> ELSE << >>) \o Digits(k)

FilaSgsss(p, e, d, c, s, t) ==
    [PERIODO |-> Ent(p), ENTIDAD |-> e, DEPTO |-> Txt(d),
     CONTRIBUTIVO |-> c, SUBSIDIADO |-> s, TOTAL |-> t]

\* lines 57-60: the periods, latest first, after the accumulated option
OpcionesPeriodo(df_data) ==
    <<Txt(ACUMULADO)>> \o Reverse(SortCeldas(Unique(df_data, "PERIODO")))

\* lines 68-73: df_filtrado, a copy of the rows of the selected period or of
\* all the rows
FiltrarPeriodo(df_data, periodo_seleccionado) ==
    IF periodo_seleccionado # Txt(ACUMULADO)
    THEN SelectSeq(df_data, LAMBDA r : r.PERIODO = periodo_seleccionado)
    ELSE df_data

\* line 384: df_filtrado['DEPTO'].replace('', np.nan, inplace=True)
LimpiarDepto(rows) ==
    [ i \in 1..Len(rows) |->
        IF rows[i].DEPTO = Txt(<< >>) THEN [ rows[i] EXCEPT !.DEPTO = Nulo ]
        ELSE rows[i] ]

\* lines 68-73, 384: the rows df_data holds after the clean-up of df_filtrado;
\* df_filtrado is a copy in both branches, so the clean-up does not reach them
DatosTrasLimpieza(df_data, periodo_seleccionado) == df_data

\* the sum of a count over the rows of one entity
SumaEntidad(rows, e, col) == SumaGrupo(rows, "ENTIDAD", e, col)

\* lines 119-126: the entities head(10) can return after the descending sort
\* by TOTAL: those above the total of the tenth place, and as many of those
\* with that total as fit; the order among equal totals is left to the sort
Tops(rows) ==
    LET es  == Unique(rows, "ENTIDAD")
        tot == [ e \in es |-> SumaEntidad(rows, e, "TOTAL") ]
        n   == IF Cardinality(es) < TopN THEN Cardinality(es) ELSE TopN
        Mayores(v) == { e \in es : tot[e] > v }
        corte == CHOOSE v \in { tot[e] : e \in es } :
                     /\ Cardinality(Mayores(v)) < n
                     /\ Cardinality({ e \in es : tot[e] >= v }) >= n
    IN  IF n = 0 THEN { {} }
        ELSE { Mayores(corte) \cup T :
                 T \in { U \in SUBSET { e \in es : tot[e] = corte } :
                           Cardinality(U) = n - Cardinality(Mayores(corte)) } }

\* not the source: every entity keeps its own name
EntidadSinAgrupar(x, top_10_eps) == x

\* lines 130-132
EntidadAgrupada(x, top_10_eps) == IF x \in top_10_eps THEN x ELSE OTRAS_EPS

\* the rows of a table in descending order of TOTAL, equal totals by name
RECURSIVE OrdenarPorTotal(_)
OrdenarPorTotal(S) ==
    IF S = {} THEN << >>
    ELSE LET m == CHOOSE x \in S : \A y \in S :
                      \/ y = x
                      \/ x.TOTAL > y.TOTAL
                      \/ x.TOTAL = y.TOTAL /\ StrLess(x.EPS, y.EPS)
         IN  <<m>> \o OrdenarPorTotal(S \ {m})

\* lines 119-164: df_tabla_descarga, the ranking with top_10_eps as head(10)
Ranking(rows, top_10_eps) ==
    LET es == Unique(rows, "ENTIDAD")
        grupos == { EntidadAgrupada(e, top_10_eps) : e \in es }
        SumaDe(g, col) ==
            LET RECURSIVE S(_)
                S(rs) == IF rs = << >> THEN 0
                         ELSE (IF EntidadAgrupada(Head(rs).ENTIDAD, top_10_eps) = g
                               THEN Head(rs)[col] ELSE 0) + S(Tail(rs))
            IN  S(rows)
        Fila(g) == [ EPS |-> g,
                     CONTRIBUTIVO |-> SumaDe(g, "CONTRIBUTIVO"),
                     SUBSIDIADO |-> SumaDe(g, "SUBSIDIADO"),
                     TOTAL |-> SumaDe(g, "TOTAL") ]
    IN  OrdenarPorTotal({ Fila(g) : g \in grupos \ {OTRAS_EPS} })
        \o (IF OTRAS_EPS \in grupos THEN << Fila(OTRAS_EPS) >> ELSE << >>)

\* lines 233-237: df_evolucion, one row for every period and entity with rows,
\* by period and by name
TablaEvolucion(datos, eps_seleccionadas) ==
    LET ps == SortCeldas(Unique(datos, "PERIODO"))
        es == SortedStrs(Unique(datos, "ENTIDAD"))
        Fila(p, e) ==
            LET rs == SelectSeq(datos, LAMBDA r : r.PERIODO = p)
            IN  [ PERIODO |-> p, ENTIDAD |-> e,
                  CONTRIBUTIVO |-> SumaEntidad(rs, e, "CONTRIBUTIVO"),
                  SUBSIDIADO |-> SumaEntidad(rs, e, "SUBSIDIADO"),
                  TOTAL |-> SumaEntidad(rs, e, "TOTAL") ]
        DePeriodo(p) ==
            LET presentes == SelectSeq(es, LAMBDA e :
                    /\ e \in Elem(eps_seleccionadas)
                    /\ \E i \in 1..Len(datos) :
                           datos[i].PERIODO = p /\ datos[i].ENTIDAD = e)
            IN  [ i \in 1..Len(presentes) |-> Fila(p, presentes[i]) ]
    IN  Concat([ i \in 1..Len(ps) |-> DePeriodo(ps[i]) ], Len(ps))

\* lines 267-297: the growth of every selected entity between the first and
\* the last period of the table, as the fraction n/d per cent, or infinite
Crecimiento(df_final, eps_seleccionadas, regimen_seleccionado) ==
    LET periodos_ordenados == SortCeldas(Unique(df_final, "PERIODO"))
        De(eps) ==
            LET df_eps == SelectSeq(df_final, LAMBDA r : r.ENTIDAD = eps)
                total_inicial ==
                    SumaGrupo(df_eps, "PERIODO", periodos_ordenados[1],
                              regimen_seleccionado)
                total_final ==
                    SumaGrupo(df_eps, "PERIODO",
                              periodos_ordenados[Len(periodos_ordenados)],
                              regimen_seleccionado)
            IN  IF total_inicial > 0
                THEN [ EPS |-> eps, cls |-> "fin",
                       n |-> (total_final - total_inicial) * 100,
                       d |-> total_inicial ]
                ELSE IF total_final > 0
                THEN [ EPS |-> eps, cls |-> "inf", n |-> 0, d |-> 1 ]
                ELSE [ EPS |-> eps, cls |-> "fin", n |-> 0, d |-> 1 ]
    IN  IF Len(periodos_ordenados) >= 2
        THEN [ i \in 1..Len(eps_seleccionadas) |-> De(eps_seleccionadas[i]) ]
        ELSE << >>

\* not the source: the evolution of the rows of the selected period
EvolucionFiltrada(df_original, df_filtrado, eps_seleccionadas, regimen) ==
    LET df_final == TablaEvolucion(df_filtrado, eps_seleccionadas)
    IN  [ tabla |-> df_final,
          crecimiento |-> Crecimiento(df_final, eps_seleccionadas, regimen) ]

\* lines 228-360: the table (shown and exported) and the growth figures of
\* tab 2, from df_original
Evolucion(df_original, df_filtrado, eps_seleccionadas, regimen) ==
    LET df_final == TablaEvolucion(df_original, eps_seleccionadas)
    IN  [ tabla |-> df_final,
          crecimiento |-> Crecimiento(df_final, eps_seleccionadas, regimen) ]

\* lines 240-252: the values of the multiselect taken here: its default, the
\* first three names, only the first name, and none
SeleccionesEps(df_data) ==
    LET eps_unicas == SortedStrs(Unique(df_data, "ENTIDAD"))
        Primeras(k) == SubSeq(eps_unicas, 1,
                              IF Len(eps_unicas) < k THEN Len(eps_unicas) ELSE k)
    IN  { Primeras(3), Primeras(1), << >> }

\* a sheet with one entity in two periods, the first with an empty DEPTO
FilasDosPeriodos ==
    << FilaSgsss(202401, Entidad(1), << >>, 0, 1, 1),
       FilaSgsss(202402, Entidad(1), ANT, 3, 1, 4) >>

\* the rows added to it: two periods, two entities, an empty DEPTO with the
\* count 0
FilasEvolucion ==
    { FilaSgsss(p, Entidad(e), IF c = 0 THEN << >> ELSE ANT, c, 1, c + 1) :
        p \in {202401, 202402}, e \in {1, 2}, c \in {0, 3} }

\* eleven entities in one period with the totals 10, 20, ..., 110
FilasBase ==
    [ k \in 1..(TopN + 1) |->
        FilaSgsss(202401, Entidad(k), ANT, 10 * k, 0, 10 * k) ]

\* the rows added to the eleven: of the smallest entity, of a twelfth, and of
\* an entity that has the name of the grouped row
FilasExtra ==
    { FilaSgsss(202401, e, ANT, 0, t, t) :
        e \in {Entidad(1), Entidad(TopN + 2), OTRAS_EPS}, t \in {10, 200} }

MaxFilasSgsss == 1

InitSgsss ==
    /\ pagina = "sgsss"
    /\ \E df_data \in
            { b \o x : b \in {<< >>, FilasDosPeriodos},
                       x \in SeqsUpTo(FilasEvolucion, MaxFilasSgsss) }
            \cup { b \o x : b \in {<< >>, FilasBase},
                             x \in SeqsUpTo(FilasExtra, MaxFilasSgsss) } :
          sgsss = [ SinSgsss EXCEPT !.df_data = df_data ]
    /\ SinAgg
    /\ SinFiltro
    /\ SinJoin
    /\ session_state = SessionInicial
    /\ render = SinRenderVista
    /\ carga = CargaCompleta
    /\ hoja = SinHoja

\* lines 36-387: one render of the page with the period, the entities and the
\* regime the user has selected.  The in-place replace of line 384 acts on a
\* column taken from df_filtrado; whether it reaches df_filtrado depends on the
\* pandas build, so both outcomes are taken.
RenderSgsss ==
    /\ pagina = "sgsss"
    /\ \E periodo_seleccionado \in Elem(OpcionesPeriodo(sgsss.df_data)) :
       LET df_filtrado == FiltrarPeriodo(sgsss.df_data, periodo_seleccionado)
       IN  \E top_10_eps \in Tops(df_filtrado) :
           LET ranking == Ranking(df_filtrado, top_10_eps)
           IN  \E eps_seleccionadas \in SeleccionesEps(sgsss.df_data),
                  regimen_seleccionado \in {"TOTAL", "CONTRIBUTIVO", "SUBSIDIADO"} :
               LET evolucion == Evolucion(sgsss.df_data, df_filtrado,
                                          eps_seleccionadas,
                                          regimen_seleccionado)
               IN  \E limpio \in {df_filtrado, LimpiarDepto(df_filtrado)} :
                   sgsss' =
                     [ fn |-> "crear_dashboard",
                       df_data |-> DatosTrasLimpieza(sgsss.df_data,
                                                     periodo_seleccionado),
                       periodo |-> periodo_seleccionado,
                       eps_seleccionadas |-> eps_seleccionadas,
                       regimen_seleccionado |-> regimen_seleccionado,
                       df_filtrado |-> limpio,
                       top_10_eps |-> top_10_eps,
                       ranking |-> ranking,
                       evolucion |-> evolucion ]
    /\ UNCHANGED <<pagina, df, tabla, varsFiltro, varsJoin, session_state,
                   render, carga, hoja>>

NextSgsss == RenderSgsss

SpecSgsss == InitSgsss /\ [][NextSgsss]_vars

\* C30: the ranking of a render counts every entity of the filtered rows once:
\* it has at most eleven rows with distinct names; the entities with a row of
\* their own are ten (or all, when there are fewer) with no smaller TOTAL than
\* any other entity, and their row holds their sums; every other entity is in
\* the one row "OTRAS EPS", which holds the sums of those entities; the sums of
\* CONTRIBUTIVO, SUBSIDIADO and TOTAL over the ranking are the sums over the
\* filtered rows.
ThmRanking ==
    sgsss.fn = "crear_dashboard" =>
        LET rows == sgsss.df_filtrado
            rk   == sgsss.ranking
            es   == Unique(rows, "ENTIDAD")
            top  == sgsss.top_10_eps
            propias == top \ {OTRAS_EPS}
            cols == {"CONTRIBUTIVO", "SUBSIDIADO", "TOTAL"}
            SumaResto(col) ==
                Suma(SelectSeq(rows, LAMBDA r : r.ENTIDAD \notin propias), col)
        IN  /\ Len(rk) <= TopN + 1
            /\ \A i, j \in 1..Len(rk) : rk[i].EPS = rk[j].EPS => i = j
            /\ top \subseteq es
            /\ Cardinality(top) = (IF Cardinality(es) < 10
                                   THEN Cardinality(es) ELSE 10)
            /\ \A a \in top, b \in es \ top :
                   SumaEntidad(rows, a, "TOTAL") >= SumaEntidad(rows, b, "TOTAL")
            /\ \A e \in propias : \E i \in 1..Len(rk) :
                   /\ rk[i].EPS = e
                   /\ \A c \in cols : rk[i][c] = SumaEntidad(rows, e, c)
            /\ \A i \in 1..Len(rk) : rk[i].EPS \in propias \cup {OTRAS_EPS}
            /\ (es \ propias # {}) <=> (\E i \in 1..Len(rk) : rk[i].EPS = OTRAS_EPS)
            /\ \A i \in 1..Len(rk) : rk[i].EPS = OTRAS_EPS =>
                   \A c \in cols : rk[i][c] = SumaResto(c)
            /\ \A c \in cols : Suma(rk, c) = Suma(rows, c)

\* C30 witness: twelve entities, the twelfth with the largest total: it leads
\* the ranking of eleven rows, and the two smallest are in "OTRAS EPS"
WitRanking ==
    /\ sgsss.fn = "crear_dashboard"
    /\ Cardinality(Unique(sgsss.df_filtrado, "ENTIDAD")) = TopN + 2
    /\ Len(sgsss.ranking) = TopN + 1
    /\ sgsss.ranking[1].EPS = Entidad(TopN + 2)
    /\ sgsss.ranking[1].TOTAL = 200
    /\ sgsss.ranking[TopN + 1] =
          [EPS |-> OTRAS_EPS, CONTRIBUTIVO |-> 30, SUBSIDIADO |-> 0, TOTAL |-> 30]

\* C27: a render of the SGSSS page leaves the unfiltered dataset as it was, and
\* a render that follows another with the same entities and the same regime
\* selected in tab 2 shows the same evolution table and growth figures,
\* whatever period each of the two selected.
ThmEvolucionIndependiente ==
    [][ /\ sgsss'.df_data = sgsss.df_data
        /\ ( /\ sgsss.fn = "crear_dashboard"
             /\ sgsss'.eps_seleccionadas = sgsss.eps_seleccionadas
             /\ sgsss'.regimen_seleccionado = sgsss.regimen_seleccionado )
              => sgsss'.evolucion = sgsss.evolucion ]_vars

\* C27 witness: the first of two periods is selected and the clean-up has
\* replaced the empty DEPTO of its row in the filtered rows; the loaded rows
\* still hold the empty text, and the evolution covers both periods
WitEvolucionIndependiente ==
    /\ sgsss.fn = "crear_dashboard"
    /\ sgsss.df_data = FilasDosPeriodos
    /\ sgsss.periodo = Ent(202401)
    /\ sgsss.regimen_seleccionado = "TOTAL"
    /\ sgsss.df_filtrado = << [ FilasDosPeriodos[1] EXCEPT !.DEPTO = Nulo ] >>
    /\ Len(sgsss.evolucion.tabla) = 2
    /\ sgsss.evolucion.crecimiento =
          << [EPS |-> Entidad(1), cls |-> "fin", n |-> 300, d |-> 1] >>

\* the loaded rows of the BDUA page that satisfy the selections of the render
\* up to the filter f
FilasAntesDe(f) ==
    SelectSeq(df_base.rows, LAMBDA r :
        /\ f \in {"mes", "subregion", "fin"} =>
              (render.ano = Txt(TODOS) \/ r.ANO = render.ano)
        /\ f \in {"subregion", "fin"} =>
              (render.mes = Txt(TODOS) \/ r.MES = render.mes)
        /\ f = "fin" =>
              (render.subregion = Txt(TODOS) \/ r.SUBREGION = render.subregion))

\* C28: in a render of the BDUA page every option of a filter other than
\* 'TODOS' is a value of the rows left by the filters before it, every
\* selection is one of the options offered, the filtered rows are the loaded
\* rows that satisfy the selections, and they are empty, with the "no data"
\* warning shown, only when the loaded dataset is empty.
ThmFiltradoNoVacio ==
    (render.fn = "poblacion_st" /\ ~ render.abortada) =>
        /\ \A f \in {"ano", "mes", "subregion"} :
              /\ render[f] \in Elem(render.opciones[f])
              /\ Elem(render.opciones[f]) =
                    {Txt(TODOS)} \cup Unique(FilasAntesDe(f), ColDeFiltro(f))
        /\ render.kpis = FilasAntesDe("fin")
        /\ (render.kpis = << >>) <=> (df_base.rows = << >>)
        /\ ("warning_sin_datos" \in render.avisos) <=> (df_base.rows = << >>)

\* C28 witness: three loaded rows and a render narrowed by year, month and
\* sub-region to one of them
WitFiltradoNoVacio ==
    /\ render.fn = "poblacion_st"
    /\ Len(df_base.rows) = 3
    /\ render.ano = Txt(A2024)
    /\ render.mes = Txt(ABRIL)
    /\ render.subregion = Txt(NORTE)
    /\ render.kpis = << FilaRenderBdua(A2024, ABRIL, NORTE) >>

\* MONTH_ORDER.get(x, 99), the key the page sorts the months by
ClaveMes(c) == IF MONTH_ORDER(c.s) = 0 THEN 99 ELSE MONTH_ORDER(c.s)

\* C29: after the month adjustment of a render of the BDUA page the stored
\* month is one of the month options offered; a stored month that is offered is
\* unchanged; one that is not is replaced by the available month that is last
\* in the order of MONTH_ORDER, or by 'TODOS' when no month is available.
ThmMesAjustado ==
    (render.fn = "poblacion_st" /\ ~ render.abortada) =>
        LET options_meses == Elem(render.opciones.mes)
            available_meses == options_meses \ {Txt(TODOS)}
        IN  /\ render.mes_ajustado \in options_meses
            /\ render.mes_previo \in options_meses =>
                  render.mes_ajustado = render.mes_previo
            /\ (render.mes_previo \notin options_meses /\ available_meses # {}) =>
                  /\ render.mes_ajustado \in available_meses
                  /\ \A m \in available_meses :
                         ClaveMes(m) <= ClaveMes(render.mes_ajustado)
            /\ (render.mes_previo \notin options_meses /\ available_meses = {}) =>
                  render.mes_ajustado = Txt(TODOS)

\* C29 witness: FEBRERO was stored under 2025; the year 2024 is selected, which
\* has ENERO and ABRIL only, and the stored month becomes ABRIL
WitMesAjustado ==
    /\ render.fn = "poblacion_st"
    /\ render.ano = Txt(A2024)
    /\ render.mes_previo = Txt(FEBRERO)
    /\ render.opciones.mes = << Txt(TODOS), Txt(ENERO), Txt(ABRIL) >>
    /\ render.mes_ajustado = Txt(ABRIL)

=============================================================================
